---- MODULE Spec2Model ----
(***************************************************************************)
(* A model of neurocode: the TOON row encoding and IR round trip, the      *)
(* freshness tracker, patch-plan validation and the patch engine.          *)
(* Strings are sequences of one-character strings; None is NoneId (for     *)
(* optional integers) or the empty sequence where the code uses `x or ""`.  *)
(***************************************************************************)
EXTENDS Integers, Sequences, FiniteSets, TLC

VARIABLES
    \* --- TOON row encoding (toon_serialize._escape_value / toon_parse._parse_row)
    rowpc,        \* "init" | "written" | "read"
    fields,       \* the field values handed to the writer
    row,          \* the row text the writer produced
    readFields,   \* the field values the reader recovered
    \* --- TOON IR round trip (repository_ir_to_toon / repository_ir_from_toon)
    irpc,         \* "built" | "serialized" | "parsed"
    ir,           \* the RepositoryIR in memory
    toon,         \* the TOON document: one sequence of rows per table
    parsedIr,     \* the RepositoryIR the parser rebuilt
    \* --- freshness tracker (status.py, cli `ir` / `ir --check` / `status`, api.status)
    disk,         \* the source tree: file -> "absent" | "locked" | its bytes
    irFile,       \* .neurocode/ir.toon: whether it exists, and its modules rows
    statusOut,    \* what the last command reported, and the tree it looked at
    builtFrom,    \* history: the tree the last `ir` build read
    irBuilt,      \* history: ir.toon was written by an `ir` build of this run
    \* --- patch plan documents (plan_patch_llm.py, patch_plan.py)
    planDoc,      \* the plan JSON document, JNull before a bundle is written
    planLog,      \* history: how the document was filled and edited since it was built
    loadOut,      \* what load_patch_plan returned or raised for the document
    \* --- patch application (patch.py, api.patch_file, api.apply_patch_plan)
    source,       \* the lines of the target file on disk
    irTarget,     \* the FunctionIR of the file's first function in .neurocode/ir.toon
    patchPlan,    \* the operations of the filled plan for the file
    history,      \* .neurocode/patch-history.json: the entries appended so far
    patchOut,     \* what the last patch command returned or raised, and what it saw
    \* --- call resolution (ir_build.build_repository_ir, query.run_query)
    srcTree,      \* the source tree: its files in discovery order
    builtIr,      \* the RepositoryIR of the last build of the tree
    previousIr,   \* the RepositoryIR of the build before the last
    queryOut,     \* what the last query returned or raised
    \* --- checks, embeddings and the patch history file
    checkOut, \* what the last check command printed and its exit status
    embedOut, \* the embedding call: its attempts, the delays slept and how it ended
    histFile, \* .neurocode/patch-history.toon: absent, or its count and rows
    histAppended, \* the entries append_patch_history built, in call order
    histClock, \* the UTC clock, in whole seconds
    histLoaded  \* what the last load_patch_history returned

toonVars == <<rowpc, fields, row, readFields, irpc, ir, toon, parsedIr>>
statusVars == <<disk, irFile, statusOut, builtFrom, irBuilt>>
planVars == <<planDoc, planLog, loadOut>>
patchVars == <<source, irTarget, patchPlan, history, patchOut>>
resolveVars == <<srcTree, builtIr, previousIr, queryOut>>
historyVars == <<histFile, histAppended, histClock, histLoaded>>
serviceVars == <<checkOut, embedOut, historyVars>>

----------------------------------------------------------------------------
\* Characters.

BS == "\\"
NL == "\n"
COMMA == ","
DOT == "."
QUOTE == "'"

\* ir_model: `int | None` fields; None is NoneId.
NoneId == 0 - 1

\* Bounds of the row model.
MaxValueLen == 2
MaxFields == 2

RowChars == {"a", "n", COMMA, BS, NL}

RECURSIVE SeqsUpTo(_, _)
SeqsUpTo(S, n) ==
    IF n = 0 THEN {<<>>}
    ELSE LET shorter == SeqsUpTo(S, n - 1)
         IN  shorter \cup {Append(s, c) : s \in shorter, c \in S}

RowValues == SeqsUpTo(RowChars, MaxValueLen)

\* str.replace(old, new) for a one-character `old`.
RECURSIVE ReplaceChar(_, _, _)
ReplaceChar(s, old, new) ==
    IF s = <<>> THEN <<>>
    ELSE (IF Head(s) = old THEN new ELSE <<Head(s)>>)
         \o ReplaceChar(Tail(s), old, new)

\* str.replace(old, new) for a two-character `old`: left to right, no overlap.
RECURSIVE ReplacePair(_, _, _)
ReplacePair(s, old, new) ==
    IF s = <<>> THEN <<>>
    ELSE IF Len(s) >= 2 /\ s[1] = old[1] /\ s[2] = old[2]
         THEN new \o ReplacePair(SubSeq(s, 3, Len(s)), old, new)
         ELSE <<Head(s)>> \o ReplacePair(Tail(s), old, new)

\* sep.join(parts)
RECURSIVE Join(_, _)
Join(parts, sep) ==
    IF parts = <<>> THEN <<>>
    ELSE IF Len(parts) = 1 THEN parts[1]
    ELSE parts[1] \o sep \o Join(Tail(parts), sep)

\* toon_serialize._escape_value: newline -> \n, then comma -> \, ; the
\* backslash itself is left as it is.
_escape_value(value) ==
    ReplaceChar(ReplaceChar(value, NL, <<BS, "n">>), COMMA, <<BS, COMMA>>)

\* toon_parse._unescape_value: "\," -> ",", then "\n" -> newline.
_unescape_value(value) ==
    ReplacePair(ReplacePair(value, <<BS, COMMA>>, <<COMMA>>), <<BS, "n">>, <<NL>>)

\* toon_parse._parse_row: the loop over the characters of the line, with its
\* three locals (fields, current, escaped).
RECURSIVE ParseRowFrom(_, _, _, _)
ParseRowFrom(line, acc, current, escaped) ==
    IF line = <<>> THEN Append(acc, current)
    ELSE LET ch == Head(line)
             rest == Tail(line)
         IN  IF escaped THEN ParseRowFrom(rest, acc, Append(current, ch), FALSE)
             ELSE IF ch = BS THEN ParseRowFrom(rest, acc, current, TRUE)
             ELSE IF ch = COMMA THEN ParseRowFrom(rest, Append(acc, current), <<>>, FALSE)
             ELSE ParseRowFrom(rest, acc, Append(current, ch), FALSE)

_parse_row(line) == ParseRowFrom(line, <<>>, <<>>, FALSE)

MapSeq(Op(_), s) == [i \in 1..Len(s) |-> Op(s[i])]

\* ",".join([... _escape_value(v) ...]) as every table writer does.
WriteRowText(values) == Join(MapSeq(_escape_value, values), <<COMMA>>)

\* _parse_row followed by _unescape_value on every cell.
ReadRowValues(line) == MapSeq(_unescape_value, _parse_row(line))



WriteRow ==
    /\ rowpc = "init"
    /\ row' = WriteRowText(fields)
    /\ rowpc' = "written"
    /\ UNCHANGED <<fields, readFields>>

ReadRow ==
    /\ rowpc = "written"
    /\ readFields' = ReadRowValues(row)
    /\ rowpc' = "read"
    /\ UNCHANGED <<fields, row>>

----------------------------------------------------------------------------
\* The IR round trip: repository_ir_to_toon, then repository_ir_from_toon.

\* Bounds of the IR model.
MaxModules == 2
MaxFunctions == 2

Digits == <<"0", "1", "2", "3", "4", "5", "6", "7", "8", "9">>

\* str(n) for n >= 0.
RECURSIVE IntToStr(_)
IntToStr(n) ==
    IF n < 10 THEN <<Digits[n + 1]>>
    ELSE IntToStr(n \div 10) \o <<Digits[(n % 10) + 1]>>

DigitVal(c) == CHOOSE d \in 0..9 : Digits[d + 1] = c

\* int(s) for a string of decimal digits.
RECURSIVE StrToInt(_)
StrToInt(s) ==
    IF Len(s) = 1 THEN DigitVal(s[1])
    ELSE 10 * StrToInt(SubSeq(s, 1, Len(s) - 1)) + DigitVal(s[Len(s)])

\* `"" if x is None else str(x)` and `int(raw) if raw not in {"", None} else None`.
OptIntToStr(x) == IF x = NoneId THEN <<>> ELSE IntToStr(x)
OptStrToInt(raw) == IF raw = <<>> THEN NoneId ELSE StrToInt(raw)

RECURSIVE Flatten(_)
Flatten(ss) == IF ss = <<>> THEN <<>> ELSE Head(ss) \o Flatten(Tail(ss))

\* A call expression `func(...)`: func is a root (a Name, or a string Constant)
\* followed by a chain of attribute names.
NameNode(id, attrs) == [kind |-> "Name", text |-> id, attrs |-> attrs]
ConstNode(value, attrs) == [kind |-> "Constant", text |-> value, attrs |-> attrs]

CallNodes ==
    { NameNode(<<"f", "0">>, <<>>),
      NameNode(<<"m", "0">>, << <<"f", "0">> >>),
      ConstNode(<<COMMA>>, << <<"j">> >>),
      ConstNode(<<NL>>, << <<"j">> >>) }

\* repr() of a str constant, as ast.unparse renders it.
PyRepr(value) ==
    <<QUOTE>>
    \o ReplaceChar(ReplaceChar(value, BS, <<BS, BS>>), NL, <<BS, "n">>)
    \o <<QUOTE>>

\* ir_build.render_call_target
render_call_target(node) ==
    IF node.kind = "Name" THEN Join(<<node.text>> \o node.attrs, <<DOT>>)
    ELSE Join(<<PyRepr(node.text)>> \o node.attrs, <<DOT>>)

NoCall == [has |-> FALSE, node |-> NameNode(<<"f", "0">>, <<>>), callee |-> NoneId]
CallChoices ==
    {NoCall} \cup [has : {TRUE}, node : CallNodes, callee : {NoneId, 0}]

FromImport ==
    [kind |-> <<"f", "r", "o", "m">>, module |-> <<"m", "0">>,
     name |-> <<"f", "0">>, alias |-> <<>>]

\* What one source file contributes: its functions (each with at most one call
\* site here) and its imports.
ModuleSources ==
    [calls : UNION {[1..k -> CallChoices] : k \in 1..MaxFunctions},
     imports : {<<>>, <<FromImport>>}]

RepoSources == UNION {[1..k -> ModuleSources] : k \in 1..MaxModules}

RECURSIVE FunctionsBefore(_, _)
FunctionsBefore(src, i) ==
    IF i <= 1 THEN 0 ELSE Len(src[i - 1].calls) + FunctionsBefore(src, i - 1)

ModuleNameOf(i) == <<"m">> \o IntToStr(i - 1)
FunctionNameOf(j) == <<"f">> \o IntToStr(j - 1)

\* ir_build.build_repository_ir, as far as the fields the TOON tables carry:
\* module ids in discovery order, dense function ids (second pass), one call
\* edge per call site in call-site order.  Call resolution is an input here
\* (the callee each call site was resolved to).
BuiltFunction(src, i, j) ==
    [id |-> FunctionsBefore(src, i) + j - 1,
     module_id |-> i - 1,
     name |-> FunctionNameOf(j),
     qualified_name |-> ModuleNameOf(i) \o <<DOT>> \o FunctionNameOf(j),
     lineno |-> j,
     parent_class_id |-> NoneId,
     calls |-> IF src[i].calls[j].has
               THEN <<[lineno |-> j + 1,
                       target |-> render_call_target(src[i].calls[j].node)]>>
               ELSE <<>>]

BuiltModule(src, i) ==
    [id |-> i - 1,
     module_name |-> ModuleNameOf(i),
     path |-> ModuleNameOf(i) \o <<DOT, "p", "y">>,
     imports |-> src[i].imports,
     functions |-> [j \in 1..Len(src[i].calls) |-> BuiltFunction(src, i, j)]]

BuiltEdges(src, i, j) ==
    IF src[i].calls[j].has
    THEN <<[caller_function_id |-> FunctionsBefore(src, i) + j - 1,
            callee_function_id |-> src[i].calls[j].callee,
            lineno |-> j + 1,
            target |-> render_call_target(src[i].calls[j].node)]>>
    ELSE <<>>

build_repository_ir(src) ==
    [modules |-> [i \in 1..Len(src) |-> BuiltModule(src, i)],
     call_edges |->
        Flatten([i \in 1..Len(src) |->
                    Flatten([j \in 1..Len(src[i].calls) |-> BuiltEdges(src, i, j)])])]

AllFunctions(r) == Flatten([i \in 1..Len(r.modules) |-> r.modules[i].functions])

\* toon_serialize.repository_ir_to_toon: the rows of each table.
ModuleRow(m) ==
    Join(<<IntToStr(m.id), _escape_value(m.module_name), _escape_value(m.path),
           IntToStr(Len(m.functions)), IntToStr(Len(m.imports))>>, <<COMMA>>)

ImportRow(m, imp) ==
    Join(<<IntToStr(m.id), _escape_value(imp.kind), _escape_value(imp.module),
           _escape_value(imp.name), _escape_value(imp.alias)>>, <<COMMA>>)

FunctionRow(fn) ==
    Join(<<IntToStr(fn.id), IntToStr(fn.module_id), _escape_value(fn.name),
           _escape_value(fn.qualified_name), IntToStr(fn.lineno),
           OptIntToStr(fn.parent_class_id), <<>>, IntToStr(Len(fn.calls))>>,
         <<COMMA>>)

CallRow(fn, call) ==
    Join(<<IntToStr(fn.id), IntToStr(fn.module_id), IntToStr(call.lineno),
           _escape_value(call.target)>>, <<COMMA>>)

EdgeRow(e) ==
    Join(<<IntToStr(e.caller_function_id), OptIntToStr(e.callee_function_id),
           IntToStr(e.lineno), _escape_value(e.target)>>, <<COMMA>>)

repository_ir_to_toon(r) ==
    [modules |-> [i \in 1..Len(r.modules) |-> ModuleRow(r.modules[i])],
     imports |->
        Flatten([i \in 1..Len(r.modules) |->
                    [k \in 1..Len(r.modules[i].imports) |->
                        ImportRow(r.modules[i], r.modules[i].imports[k])]]),
     functions |-> MapSeq(FunctionRow, AllFunctions(r)),
     calls |->
        Flatten(MapSeq(LAMBDA fn : [k \in 1..Len(fn.calls) |-> CallRow(fn, fn.calls[k])],
                       AllFunctions(r))),
     call_graph |-> MapSeq(EdgeRow, r.call_edges)]

\* `values[i] if i < len(values) else ""`
Cell(values, i) == IF i <= Len(values) THEN values[i] ELSE <<>>

\* toon_parse.repository_ir_from_toon: rows are split by _parse_row, integer
\* cells go through int(), text cells through _unescape_value; functions are
\* appended to the module their module_id names, call sites to the function
\* their function_id names, all in table order.
ParsedCall(rowText) ==
    LET v == _parse_row(rowText)
    IN  [lineno |-> StrToInt(Cell(v, 3)), target |-> _unescape_value(Cell(v, 4))]

ParsedFunction(rowText, callRows) ==
    LET v == _parse_row(rowText)
        fid == StrToInt(Cell(v, 1))
        mine == SelectSeq(callRows, LAMBDA c : StrToInt(Cell(_parse_row(c), 1)) = fid)
    IN  [id |-> fid,
         module_id |-> StrToInt(Cell(v, 2)),
         name |-> _unescape_value(Cell(v, 3)),
         qualified_name |-> _unescape_value(Cell(v, 4)),
         lineno |-> StrToInt(Cell(v, 5)),
         parent_class_id |-> OptStrToInt(Cell(v, 6)),
         calls |-> MapSeq(ParsedCall, mine)]

ParsedImport(rowText) ==
    LET v == _parse_row(rowText)
    IN  [kind |-> _unescape_value(Cell(v, 2)), module |-> _unescape_value(Cell(v, 3)),
         name |-> _unescape_value(Cell(v, 4)), alias |-> _unescape_value(Cell(v, 5))]

ParsedModule(rowText, t) ==
    LET v == _parse_row(rowText)
        mid == StrToInt(Cell(v, 1))
        ImportOfModule(r) == StrToInt(Cell(_parse_row(r), 1)) = mid
        FunctionOfModule(r) == StrToInt(Cell(_parse_row(r), 2)) = mid
    IN  [id |-> mid,
         module_name |-> _unescape_value(Cell(v, 2)),
         path |-> _unescape_value(Cell(v, 3)),
         imports |-> MapSeq(ParsedImport, SelectSeq(t.imports, ImportOfModule)),
         functions |-> MapSeq(LAMBDA r : ParsedFunction(r, t.calls),
                              SelectSeq(t.functions, FunctionOfModule))]

ParsedEdge(rowText) ==
    LET v == _parse_row(rowText)
    IN  [caller_function_id |-> StrToInt(Cell(v, 1)),
         callee_function_id |-> OptStrToInt(Cell(v, 2)),
         lineno |-> StrToInt(Cell(v, 3)),
         target |-> _unescape_value(Cell(v, 4))]

repository_ir_from_toon(t) ==
    [modules |-> MapSeq(LAMBDA r : ParsedModule(r, t), t.modules),
     call_edges |-> MapSeq(ParsedEdge, t.call_graph)]



\* cli `ir`: output_path.write_text(repository_ir_to_toon(repo_ir))
SerializeIr ==
    /\ irpc = "built"
    /\ toon' = repository_ir_to_toon(ir)
    /\ irpc' = "serialized"
    /\ UNCHANGED <<ir, parsedIr>>

\* toon_parse.load_repository_ir
ParseIr ==
    /\ irpc = "serialized"
    /\ parsedIr' = repository_ir_from_toon(toon)
    /\ irpc' = "parsed"
    /\ UNCHANGED <<ir, toon>>

----------------------------------------------------------------------------
\* The freshness tracker.

\* Bounds of the source tree.
MaxFiles == 2

Files == 1..MaxFiles
Versions == {"v1", "v2"}
DiskStates == {"absent", "locked"} \cup Versions

\* `file_hash or None`: no hash recorded.
NoHash == ""

\* ir_build.compute_file_hash: the content hash of the file's bytes.
compute_file_hash(bytes) == IF bytes = "v1" THEN "sha-v1" ELSE "sha-v2"

Exists(state) == state # "absent"
Readable(state) == state \in Versions

\* The columns of the modules table as repository_ir_to_toon writes its header.
ModulesColumns == {"module_id", "module_name", "path", "num_functions", "num_imports"}

\* toon_parse: `_unescape_value(row.get("file_hash", ""))`, then `file_hash or None`.
ParsedFileHash(columns, cell) == IF "file_hash" \in columns THEN cell ELSE NoHash

\* The files discover_python_files finds and build_repository_ir can read, in
\* sorted order.
RECURSIVE ReadableFiles(_, _)
ReadableFiles(tree, f) ==
    IF f > MaxFiles THEN <<>>
    ELSE (IF Readable(tree[f]) THEN <<f>> ELSE <<>>) \o ReadableFiles(tree, f + 1)

\* cli `ir` (and api.build_ir): build_repository_ir, repository_ir_to_toon,
\* write_text; what a later load_repository_ir reads back for each module.
\* ModuleIR is constructed without a file_hash and the modules table has no
\* file_hash column.
BuiltIrModules(tree) ==
    LET found == ReadableFiles(tree, 1)
    IN  [i \in 1..Len(found) |->
            [path |-> found[i],
             file_hash |-> ParsedFileHash(ModulesColumns, NoHash)]]

\* status._compute_module_status, for one module.
ModuleStatus(module, tree) ==
    LET state == tree[module.path]
    IN  IF ~Exists(state) THEN "missing"
        ELSE IF module.file_hash = NoHash THEN "unknown"
        ELSE IF ~Readable(state) THEN "missing"
        ELSE IF compute_file_hash(state) = module.file_hash THEN "fresh"
        ELSE "stale"

_compute_module_status(modules, tree) ==
    [i \in 1..Len(modules) |-> ModuleStatus(modules[i], tree)]

AllFresh(statuses) == \A i \in 1..Len(statuses) : statuses[i] = "fresh"

CountOf(statuses, what) == Cardinality({i \in 1..Len(statuses) : statuses[i] = what})

\* status.render_status: the exit code.
render_status_exit(statuses) ==
    IF CountOf(statuses, "stale") = 0 /\ CountOf(statuses, "missing") = 0 THEN 0 ELSE 1

\* cli `ir --check`: the modules it lists as stale.
IrCheckStale(modules, tree) ==
    {i \in 1..Len(modules) :
        \/ ~Readable(tree[modules[i].path])
        \/ /\ modules[i].file_hash # NoHash
           /\ modules[i].file_hash # compute_file_hash(tree[modules[i].path])}

NoOutput == [cmd |-> "none", statuses |-> <<>>, exit_code |-> 0, fresh |-> FALSE,
             tree |-> [f \in Files |-> "absent"], force |-> FALSE, wrote |-> FALSE]

\* Every ir.toon the parser loads: modules of distinct files in sorted order,
\* each with or without a recorded hash.
RECURSIVE LoadableModules(_)
LoadableModules(f) ==
    IF f > MaxFiles THEN {<<>>}
    ELSE LET rest == LoadableModules(f + 1)
         IN  rest \cup
             {<<[path |-> f, file_hash |-> h]>> \o r :
                 h \in {NoHash, "sha-v1", "sha-v2"}, r \in rest}

\* cli `ir <path>`: build and write ir.toon; exit status 0.
CliIr ==
    /\ irFile' = [exists |-> TRUE, modules |-> BuiltIrModules(disk)]
    /\ builtFrom' = disk
    /\ irBuilt' = TRUE
    /\ statusOut' = [cmd |-> "ir", statuses |-> <<>>, exit_code |-> 0,
                     fresh |-> FALSE, tree |-> disk, force |-> FALSE, wrote |-> TRUE]
    /\ UNCHANGED disk

\* cli `status <path>`: status_from_disk.
CliStatus ==
    /\ statusOut' =
          IF ~irFile.exists
          THEN [cmd |-> "status", statuses |-> <<>>, exit_code |-> 1,
                fresh |-> FALSE, tree |-> disk, force |-> FALSE, wrote |-> FALSE]
          ELSE LET statuses == _compute_module_status(irFile.modules, disk)
               IN  [cmd |-> "status", statuses |-> statuses,
                    exit_code |-> render_status_exit(statuses),
                    fresh |-> render_status_exit(statuses) = 0, tree |-> disk, force |-> FALSE, wrote |-> FALSE]
    /\ UNCHANGED <<disk, irFile, builtFrom, irBuilt>>

\* cli `ir <path> --check`.
CliIrCheck ==
    /\ statusOut' =
          IF ~irFile.exists
          THEN [cmd |-> "ir --check", statuses |-> <<>>, exit_code |-> 1,
                fresh |-> FALSE, tree |-> disk, force |-> FALSE, wrote |-> FALSE]
          ELSE LET stale == IrCheckStale(irFile.modules, disk)
               IN  [cmd |-> "ir --check",
                    statuses |-> _compute_module_status(irFile.modules, disk),
                    exit_code |-> IF stale # {} THEN 1 ELSE 0,
                    fresh |-> stale = {}, tree |-> disk, force |-> FALSE, wrote |-> FALSE]
    /\ UNCHANGED <<disk, irFile, builtFrom, irBuilt>>

\* NeurocodeProject.status: StatusResult.ir_fresh.
ApiStatus ==
    /\ statusOut' =
          LET statuses == IF irFile.exists
                          THEN _compute_module_status(irFile.modules, disk)
                          ELSE <<>>
          IN  [cmd |-> "api.status", statuses |-> statuses, exit_code |-> 0,
               fresh |-> irFile.exists /\ AllFresh(statuses), tree |-> disk, force |-> FALSE, wrote |-> FALSE]
    /\ UNCHANGED <<disk, irFile, builtFrom, irBuilt>>

\* NeurocodeProject.build_ir: BuildIRResult.fresh; `wrote` records the
\* write_text of a rebuilt ir.toon.
ApiBuildIr ==
    \E force \in BOOLEAN :
        LET loaded == _compute_module_status(irFile.modules, disk)
            reuse == irFile.exists /\ ~force /\ AllFresh(loaded)
            rebuilt == BuiltIrModules(disk)
            statuses == IF reuse THEN loaded ELSE _compute_module_status(rebuilt, disk)
        IN  /\ irFile' = IF reuse THEN irFile ELSE [exists |-> TRUE, modules |-> rebuilt]
            /\ builtFrom' = IF reuse THEN builtFrom ELSE disk
            /\ irBuilt' = IF reuse THEN irBuilt ELSE TRUE
            /\ statusOut' = [cmd |-> "api.build_ir", statuses |-> statuses,
                             exit_code |-> 0, fresh |-> AllFresh(statuses),
                             tree |-> disk, force |-> force, wrote |-> ~reuse]
            /\ UNCHANGED disk

\* The user edits, removes, locks or restores a source file.
WriteFile ==
    \E f \in Files, state \in DiskStates :
        /\ state # disk[f]
        /\ disk' = [disk EXCEPT ![f] = state]
        /\ UNCHANGED <<irFile, statusOut, builtFrom, irBuilt>>

----------------------------------------------------------------------------
\* The patch plan document: patch_plan_schema.py, patch_plan.py, plan_patch_llm.py.

\* Bounds of the plan documents.
MaxLineno == 2
MaxNeighbors == 1
MaxEdits == 1

\* A JSON value is a record of its JSON type t and its content v.  The content
\* of a string is a sequence of pieces: a piece is one whitespace character or
\* a run of text without leading or trailing whitespace.  An object's content
\* is a function from its keys, an array's a sequence.  JNum is a JSON number
\* that is not an integer.
JStr(s) == [t |-> "string", v |-> s]
JInt(n) == [t |-> "integer", v |-> n]
JNum == [t |-> "number", v |-> 0]
JBool(b) == [t |-> "boolean", v |-> b]
JNull == [t |-> "null", v |-> 0]
JObj(o) == [t |-> "object", v |-> o]
JArr(a) == [t |-> "array", v |-> a]

\* str.strip().  Indent is one level of indentation, a run of four spaces.
Indent == "    "
Whitespace == {" ", NL, "\t", Indent}

RECURSIVE lstrip(_)
lstrip(s) == IF s # <<>> /\ Head(s) \in Whitespace THEN lstrip(Tail(s)) ELSE s

RECURSIVE rstrip(_)
rstrip(s) ==
    IF s # <<>> /\ s[Len(s)] \in Whitespace THEN rstrip(SubSeq(s, 1, Len(s) - 1)) ELSE s

strip(s) == rstrip(lstrip(s))

\* patch_plan.SUPPORTED_OPS
SUPPORTED_OPS ==
    {<<"insert_before">>, <<"insert_after">>, <<"replace_range">>, <<"append_to_function">>}

\* A schema node with the keys the validator reads.  A key the schema leaves
\* out is the validator's default for it: no enum, no minimum, no required
\* fields, no properties, no items.  "type" is the list of accepted types (a
\* single type name is the one-element list).
SchemaLeaf(types) ==
    [type |-> types, enum |-> {}, minimum |-> <<>>, required |-> {},
     properties |-> <<>>, items |-> <<>>]

SchemaString == SchemaLeaf(<<"string">>)
SchemaBoolean == SchemaLeaf(<<"boolean">>)
SchemaInteger(min) == [SchemaLeaf(<<"integer">>) EXCEPT !.minimum = <<min>>]

SchemaObject(required, properties) ==
    [SchemaLeaf(<<"object">>) EXCEPT !.required = required, !.properties = properties]

SchemaArray(items) == [SchemaLeaf(<<"array">>) EXCEPT !.items = items]

NeighborSchema ==
    SchemaObject({"symbol", "module", "file", "lineno"},
                 [symbol |-> SchemaString, module |-> SchemaString,
                  file |-> SchemaString, lineno |-> SchemaInteger(1)])

OperationSchema ==
    SchemaObject({"id", "op", "enabled", "file", "symbol", "lineno", "end_lineno",
                  "description", "code"},
                 [id |-> SchemaString,
                  op |-> [SchemaString EXCEPT !.enum = SUPPORTED_OPS],
                  enabled |-> SchemaBoolean,
                  file |-> SchemaString,
                  symbol |-> SchemaString,
                  lineno |-> SchemaInteger(1),
                  end_lineno |-> [SchemaLeaf(<<"integer", "null">>) EXCEPT !.minimum = <<1>>],
                  description |-> SchemaString,
                  code |-> SchemaString])

\* patch_plan_schema.PATCH_PLAN_SCHEMA.  The source_slices node has a type and
\* an "additionalProperties" subschema, which the validator never reads, and
\* no "properties".
PATCH_PLAN_SCHEMA ==
    SchemaObject({"version", "engine_version", "repo_root", "file", "module", "fix",
                  "target", "operations"},
                 [version |-> SchemaLeaf(<<"integer">>),
                  engine_version |-> SchemaString,
                  repo_root |-> SchemaString,
                  file |-> SchemaString,
                  module |-> SchemaString,
                  fix |-> SchemaString,
                  related_files |-> SchemaArray(SchemaObject({"path"}, [path |-> SchemaString])),
                  call_graph_neighbors |->
                      SchemaObject({"callers", "callees"},
                                   [target |-> SchemaLeaf(<<"string", "null">>),
                                    callers |-> SchemaArray(NeighborSchema),
                                    callees |-> SchemaArray(NeighborSchema)]),
                  source_slices |-> SchemaLeaf(<<"object">>),
                  truncation |->
                      SchemaObject({}, [applied |-> SchemaBoolean, reason |-> SchemaString,
                                        functions_included |-> SchemaInteger(0)]),
                  target |->
                      SchemaObject({"symbol", "kind", "lineno"},
                                   [symbol |-> SchemaString, kind |-> SchemaString,
                                    lineno |-> SchemaInteger(1)]),
                  operations |-> SchemaArray(OperationSchema)])

\* _validate_schema._matches_type: no expected type matches a non-integer number.
_matches_type(value, expected) == value.t = expected

\* _validate_schema._check_object: TRUE when no _require fails.
RECURSIVE _check_object(_, _)
RECURSIVE CheckField(_, _)
CheckField(value, subschema) ==
    /\ \E i \in 1..Len(subschema.type) : _matches_type(value, subschema.type[i])
    /\ subschema.enum # {} => value.v \in subschema.enum
    /\ subschema.type = <<"object">> => _check_object(value, subschema)
    /\ subschema.type = <<"array">> =>
          \A idx \in 1..Len(value.v) : _check_object(value.v[idx], subschema.items)
    /\ (subschema.minimum # <<>> /\ value.t = "integer") =>
          value.v >= subschema.minimum[1]

_check_object(obj, schema) ==
    /\ obj.t = "object"
    /\ \A key \in DOMAIN obj.v : key \in DOMAIN schema.properties
    /\ \A key \in schema.required : key \in DOMAIN obj.v
    /\ \A key \in DOMAIN obj.v : CheckField(obj.v[key], schema.properties[key])

_validate_schema(data) == _check_object(data, PATCH_PLAN_SCHEMA)

\* load_patch_plan, per operation: `op_type in SUPPORTED_OPS`.
OpTypeOk(op_raw) == op_raw.v.op.v \in SUPPORTED_OPS

\* load_patch_plan, per operation: `end_lineno >= lineno` unless end_lineno is None.
EndLinenoUnchecked(op_raw) == TRUE

EndLinenoOk(op_raw) ==
    op_raw.v.end_lineno.t # "null" => op_raw.v.end_lineno.v >= op_raw.v.lineno.v

\* load_patch_plan, per operation: the target file is the expected file, when
\* one is expected.  NoExpectedFile is `expected_file=None`.
NoExpectedFile == <<>>

OpFileUnchecked(op_raw, expected_file) == TRUE

OpFileOk(op_raw, expected_file) ==
    expected_file # NoExpectedFile => op_raw.v.file.v = expected_file

\* load_patch_plan under require_filled: an enabled operation has code.
FilledIgnoringEnabled(op_raw) == strip(op_raw.v.code.v) # <<>>

FilledOk(op_raw) == op_raw.v.enabled.v => strip(op_raw.v.code.v) # <<>>

\* The PlanOperation load_patch_plan builds from a validated operation.
PlanOperation(op_raw) ==
    [id |-> op_raw.v.id.v,
     op |-> op_raw.v.op.v[1],
     file |-> op_raw.v.file.v,
     symbol |-> op_raw.v.symbol.v,
     lineno |-> op_raw.v.lineno.v,
     end_lineno |-> IF op_raw.v.end_lineno.t = "null" THEN NoneId ELSE op_raw.v.end_lineno.v,
     code |-> op_raw.v.code.v,
     enabled |-> op_raw.v.enabled.v]

NoPlan == [file |-> <<>>, fix |-> <<>>, operations |-> <<>>]

Raised(error) == [raised |-> TRUE, error |-> error, plan |-> NoPlan]

\* The first operation the loop of load_patch_plan rejects, or 0.
FirstRejectedOp(ops, expected_file) ==
    LET bad == {i \in 1..Len(ops) :
                   ~OpTypeOk(ops[i]) \/ ~OpFileOk(ops[i], expected_file) \/ ~EndLinenoOk(ops[i])}
    IN  IF bad = {} THEN 0 ELSE CHOOSE i \in bad : \A j \in bad : i <= j

\* patch_plan.load_patch_plan: the PatchPlan it returns, or the error it raises.
load_patch_plan(data, expected_file, require_filled) ==
    IF data.t # "object" THEN Raised("not an object")
    ELSE IF ~_validate_schema(data) THEN Raised("schema")
    ELSE IF expected_file # NoExpectedFile /\ data.v.file.v # expected_file
    THEN Raised("file")
    ELSE LET ops == data.v.operations.v
             bad == FirstRejectedOp(ops, expected_file)
         IN  IF bad # 0
             THEN (IF ~OpTypeOk(ops[bad]) THEN Raised("op")
                   ELSE IF ~OpFileOk(ops[bad], expected_file) THEN Raised("file")
                   ELSE Raised("end_lineno"))
             ELSE IF require_filled /\ \E i \in 1..Len(ops) : ~FilledOk(ops[i])
             THEN Raised("empty code")
             ELSE [raised |-> FALSE, error |-> "",
                   plan |-> [file |-> data.v.file.v, fix |-> data.v.fix.v,
                             operations |-> [i \in 1..Len(ops) |-> PlanOperation(ops[i])]]]

\* The functions of the loaded IR the bundle is about: the target function of
\* the file (None when the module defines no function), its k-th caller and
\* its k-th callee.
TargetFile == "pkg/mod.py"

NoTargetFn ==
    [present |-> FALSE, qualified_name |-> "", symbol_id |-> "", module |-> "pkg.mod",
     path |-> TargetFile, lineno |-> 1]

TargetFn(lineno) ==
    [present |-> TRUE, qualified_name |-> "pkg.mod.f", symbol_id |-> "pkg.mod:f",
     module |-> "pkg.mod", path |-> TargetFile, lineno |-> lineno]

CallerFn(k) ==
    [present |-> TRUE, qualified_name |-> "pkg.use" \o ToString(k) \o ".g",
     symbol_id |-> "pkg.use" \o ToString(k) \o ":g", module |-> "pkg.use" \o ToString(k),
     path |-> "pkg/use" \o ToString(k) \o ".py", lineno |-> 1]

CalleeFn(k) ==
    [present |-> TRUE, qualified_name |-> "pkg.lib" \o ToString(k) \o ".h",
     symbol_id |-> "pkg.lib" \o ToString(k) \o ":h", module |-> "pkg.lib" \o ToString(k),
     path |-> "pkg/lib" \o ToString(k) \o ".py", lineno |-> 1]

\* One operation of a new bundle: code empty, enabled.
NewOperation(n, op, file, symbol, lineno, description) ==
    JObj([op |-> JStr(<<op>>), id |-> JStr(<<"OP_" \o ToString(n)>>), file |-> JStr(<<file>>),
          symbol |-> JStr(IF symbol = "" THEN <<>> ELSE <<symbol>>),
          lineno |-> JInt(lineno), end_lineno |-> JNull, code |-> JStr(<<>>),
          description |-> JStr(<<description>>), enabled |-> JBool(TRUE)])

\* plan_patch_llm._initial_operations
_initial_operations(target_fn, file_rel) ==
    <<NewOperation(1, "append_to_function", file_rel, target_fn.qualified_name,
                   target_fn.lineno, "Implement fix")>>
    \o (IF target_fn.present
        THEN <<NewOperation(2, "insert_before", file_rel, target_fn.qualified_name,
                            target_fn.lineno, "Optional preamble")>>
        ELSE <<>>)

\* explain_llm._callers_and_callees: one entry of the callers or callees list;
\* lineno is the line of the call site.
NeighborEntry(fn, lineno) ==
    JObj([symbol |-> JStr(<<fn.symbol_id>>), module |-> JStr(<<fn.module>>),
          file |-> JStr(<<fn.path>>), lineno |-> JInt(lineno)])

\* explain_llm._collect_source_slices: one slice per function whose source
\* text is not empty, keyed by its symbol_id.
_collect_source_slices(symbols, readable) ==
    LET keys == IF readable THEN {symbols[i].symbol_id : i \in 1..Len(symbols)} ELSE {}
        fnOf(key) == CHOOSE i \in 1..Len(symbols) : symbols[i].symbol_id = key
    IN  JObj([key \in keys |->
                 JObj([file |-> JStr(<<symbols[fnOf(key)].path>>),
                       text |-> JStr(<<"def ...">>),
                       truncated |-> JBool(FALSE)])])

\* plan_patch_llm.build_patch_plan_bundle, for a non-blank fix: the bundle for
\* a file whose target function has the given callers and callees; `readable`
\* says whether the source files can be read and are not empty.
build_patch_plan_bundle(target_fn, callers, callees, readable, fix) ==
    LET callerFns == [k \in 1..callers |-> CallerFn(k)]
        calleeFns == [k \in 1..callees |-> CalleeFn(k)]
        initial == _initial_operations(target_fn, TargetFile)
        callerOps == [k \in 1..callers |->
                         NewOperation(Len(initial) + k, "insert_before", callerFns[k].path,
                                      callerFns[k].symbol_id, callerFns[k].lineno + 1,
                                      "Update callsite")]
        calleeOps == [k \in 1..callees |->
                         NewOperation(Len(initial) + callers + k, "append_to_function",
                                      calleeFns[k].path, calleeFns[k].symbol_id,
                                      calleeFns[k].lineno, "Consider updating callee")]
        slice_symbols == (IF target_fn.present THEN <<target_fn>> ELSE <<>>)
                         \o callerFns \o calleeFns
        source_slices == _collect_source_slices(slice_symbols, readable)
    IN  JObj([version |-> JInt(1),
              engine_version |-> JStr(<<"0.1.0">>),
              repo_root |-> JStr(<<"/repo">>),
              file |-> JStr(<<TargetFile>>),
              module |-> JStr(<<target_fn.module>>),
              fix |-> JStr(fix),
              target |-> JObj([symbol |-> JStr(IF target_fn.present
                                               THEN <<target_fn.qualified_name>> ELSE <<>>),
                               kind |-> JStr(<<"function">>),
                               lineno |-> JInt(target_fn.lineno)]),
              call_graph_neighbors |->
                  JObj([target |-> IF target_fn.present THEN JStr(<<target_fn.symbol_id>>)
                                   ELSE JNull,
                        callers |-> JArr([k \in 1..callers |->
                                             NeighborEntry(callerFns[k], callerFns[k].lineno + 1)]),
                        callees |-> JArr([k \in 1..callees |->
                                             NeighborEntry(calleeFns[k], target_fn.lineno + 1)])]),
              related_files |->
                  JArr(<<JObj([path |-> JStr(<<TargetFile>>)])>>
                       \o [k \in 1..callers |-> JObj([path |-> JStr(<<callerFns[k].path>>)])]
                       \o [k \in 1..callees |-> JObj([path |-> JStr(<<calleeFns[k].path>>)])]),
              source_slices |-> source_slices,
              truncation |-> JObj([applied |-> JBool(FALSE), reason |-> JStr(<<>>),
                                   functions_included |->
                                       JInt(Cardinality(DOMAIN source_slices.v))]),
              operations |-> JArr(initial \o callerOps \o calleeOps)])

\* The text an editor of the plan puts into `code`, and the fix descriptions.
CodeChoices == {<<>>, <<" ", NL>>, <<"x = 1">>, <<" ", "x = 1", NL>>}
FixChoices == {<<"handle None">>}

\* The objects of a plan document an edit can address.
HasType(o, key, type) == key \in DOMAIN o /\ o[key].t = type

ArraySites(o, key) ==
    IF HasType(o, key, "array")
    THEN {[obj |-> key, idx |-> i] : i \in 1..Len(o[key].v)}
    ELSE {}

Sites(doc) ==
    IF doc.t # "object" THEN {}
    ELSE {[obj |-> "plan", idx |-> 0]}
         \cup {[obj |-> key, idx |-> 0] :
                  key \in {k \in {"target", "call_graph_neighbors", "truncation"} :
                              HasType(doc.v, k, "object")}}
         \cup ArraySites(doc.v, "operations")
         \cup ArraySites(doc.v, "related_files")
         \cup (IF HasType(doc.v, "call_graph_neighbors", "object")
               THEN ArraySites(doc.v.call_graph_neighbors.v, "callers")
                    \cup ArraySites(doc.v.call_graph_neighbors.v, "callees")
               ELSE {})

OperationSites(doc) == {s \in Sites(doc) : s.obj = "operations"}

GetSite(doc, s) ==
    CASE s.obj = "plan" -> doc.v
      [] s.obj \in {"target", "call_graph_neighbors", "truncation"} -> doc.v[s.obj].v
      [] s.obj \in {"operations", "related_files"} -> doc.v[s.obj].v[s.idx].v
      [] OTHER -> doc.v.call_graph_neighbors.v[s.obj].v[s.idx].v

SetSite(doc, s, o) ==
    CASE s.obj = "plan" -> [doc EXCEPT !.v = o]
      [] s.obj \in {"target", "call_graph_neighbors", "truncation"} ->
            [doc EXCEPT !.v[s.obj].v = o]
      [] s.obj \in {"operations", "related_files"} ->
            [doc EXCEPT !.v[s.obj].v[s.idx].v = o]
      [] OTHER -> [doc EXCEPT !.v.call_graph_neighbors.v[s.obj].v[s.idx].v = o]

\* The schema node that describes the object at a site.
SiteSchema(s) ==
    CASE s.obj = "plan" -> PATCH_PLAN_SCHEMA
      [] s.obj \in {"target", "call_graph_neighbors", "truncation"} ->
            PATCH_PLAN_SCHEMA.properties[s.obj]
      [] s.obj \in {"operations", "related_files"} ->
            PATCH_PLAN_SCHEMA.properties[s.obj].items
      [] OTHER -> PATCH_PLAN_SCHEMA.properties.call_graph_neighbors.properties[s.obj].items

WithoutField(o, key) == [k \in DOMAIN o \ {key} |-> o[k]]
WithField(o, key, value) == [k \in DOMAIN o \cup {key} |-> IF k = key THEN value ELSE o[k]]

\* Values of a JSON type other than the types of a correct value of the field.
WrongValues(value) ==
    CASE value.t = "boolean" -> <<JInt(1), JStr(<<"true">>)>>
      [] value.t \in {"object", "array"} -> <<JStr(<<"v">>)>>
      [] value.t = "integer" -> <<JBool(TRUE), JNum>>
      [] value.t = "null" -> <<JBool(TRUE), JNum>>
      [] OTHER -> <<JBool(TRUE), JInt(1)>>

NoPlanLog ==
    [built |-> FALSE, filled |-> FALSE, fill |-> <<>>, edits |-> 0, touched |-> {},
     defects |-> {}]

NoLoad == [done |-> FALSE, require_filled |-> FALSE, raised |-> FALSE, error |-> "",
           plan |-> NoPlan]

\* cli `plan-patch-llm` / NeurocodeProject.plan_patch_llm: write a new bundle.
PlanPatchLlm ==
    /\ ~planLog.built
    /\ \E present \in BOOLEAN, lineno \in 1..MaxLineno, callers \in 0..MaxNeighbors,
          callees \in 0..MaxNeighbors, readable \in BOOLEAN, fix \in FixChoices :
          /\ strip(fix) # <<>>
          /\ planDoc' =
                IF present
                THEN build_patch_plan_bundle(TargetFn(lineno), callers, callees, readable, fix)
                ELSE build_patch_plan_bundle(NoTargetFn, 0, 0, readable, fix)
    /\ planLog' = [planLog EXCEPT !.built = TRUE]
    /\ UNCHANGED loadOut

\* The author of the code fills every operation's code, changing nothing else.
FillPlan ==
    /\ planLog.built /\ ~planLog.filled /\ planLog.edits = 0 /\ ~loadOut.done
    /\ \E code \in CodeChoices :
          LET ops == planDoc.v.operations.v
          IN  /\ planDoc' = [planDoc EXCEPT !.v.operations.v =
                                [i \in 1..Len(ops) |-> [ops[i] EXCEPT !.v.code = JStr(code)]]]
              /\ planLog' = [planLog EXCEPT !.filled = TRUE, !.fill = code]
    /\ UNCHANGED loadOut

\* One edit of the plan document: field `key` of the object at site s changes
\* so that the object becomes o; `kinds` names the defects the edit puts in.
EditPlan(s, key, o, kinds) ==
    /\ planLog.built /\ ~loadOut.done
    /\ planLog.edits < MaxEdits
    /\ [obj |-> s.obj, idx |-> s.idx, key |-> key] \notin planLog.touched
    /\ planDoc' = SetSite(planDoc, s, o)
    /\ planLog' = [planLog EXCEPT
                      !.edits = @ + 1,
                      !.touched = @ \cup {[obj |-> s.obj, idx |-> s.idx, key |-> key]},
                      !.defects = @ \cup {[kind |-> k, obj |-> s.obj, idx |-> s.idx,
                                           key |-> key] : k \in kinds}]
    /\ UNCHANGED loadOut

RemoveField ==
    \E s \in Sites(planDoc) :
        \E key \in DOMAIN GetSite(planDoc, s) \cap SiteSchema(s).required :
            EditPlan(s, key, WithoutField(GetSite(planDoc, s), key), {"missing"})

AddField ==
    \E s \in Sites(planDoc) :
        /\ "x_extra" \notin DOMAIN GetSite(planDoc, s)
        /\ EditPlan(s, "x_extra", WithField(GetSite(planDoc, s), "x_extra", JStr(<<"v">>)),
                    {"extra"})

RetypeField ==
    \E s \in Sites(planDoc) :
        \E key \in DOMAIN GetSite(planDoc, s) :
            LET wrong == WrongValues(GetSite(planDoc, s)[key])
            IN  \E i \in 1..Len(wrong) :
                    EditPlan(s, key, WithField(GetSite(planDoc, s), key, wrong[i]), {"type"})

SetUnsupportedOp ==
    \E s \in OperationSites(planDoc) :
        /\ "op" \in DOMAIN GetSite(planDoc, s)
        /\ EditPlan(s, "op", WithField(GetSite(planDoc, s), "op", JStr(<<"delete">>)), {"op"})

SetLinenoBelowOne ==
    \E s \in Sites(planDoc) :
        /\ "lineno" \in DOMAIN GetSite(planDoc, s)
        /\ EditPlan(s, "lineno", WithField(GetSite(planDoc, s), "lineno", JInt(0)), {"lineno"})

SetEndLinenoBelowLineno ==
    \E s \in OperationSites(planDoc) :
        LET o == GetSite(planDoc, s)
        IN  /\ HasType(o, "lineno", "integer")
            /\ "end_lineno" \in DOMAIN o
            /\ [obj |-> s.obj, idx |-> s.idx, key |-> "lineno"] \notin planLog.touched
            /\ EditPlan(s, "end_lineno", WithField(o, "end_lineno", JInt(o.lineno.v - 1)),
                        {"end_lineno"})

\* The author makes an operation a range replacement, leaving its end line as
\* the bundle wrote it (null) or writing one below or at its lineno.
SetReplaceRange ==
    \E s \in OperationSites(planDoc), end \in {"null", "below", "at"} :
        LET o == GetSite(planDoc, s)
            ranged == WithField(o, "op", JStr(<<"replace_range">>))
        IN  /\ "op" \in DOMAIN o
            /\ HasType(o, "lineno", "integer")
            /\ HasType(o, "end_lineno", "null")
            /\ {[obj |-> s.obj, idx |-> s.idx, key |-> k] : k \in {"lineno", "end_lineno"}}
                   \cap planLog.touched = {}
            /\ EditPlan(s, "op",
                        CASE end = "null" -> ranged
                          [] end = "below" ->
                               WithField(ranged, "end_lineno", JInt(o.lineno.v - 1))
                          [] OTHER -> WithField(ranged, "end_lineno", JInt(o.lineno.v)),
                        IF end = "below" THEN {"end_lineno"} ELSE {})

SetCode ==
    \E s \in OperationSites(planDoc), code \in CodeChoices :
        /\ "code" \in DOMAIN GetSite(planDoc, s)
        /\ EditPlan(s, "code", WithField(GetSite(planDoc, s), "code", JStr(code)), {})

DisableOperation ==
    \E s \in OperationSites(planDoc) :
        /\ "enabled" \in DOMAIN GetSite(planDoc, s)
        /\ EditPlan(s, "enabled", WithField(GetSite(planDoc, s), "enabled", JBool(FALSE)), {})

\* load_patch_plan on the plan document, as a draft or for application.
LoadPatchPlan ==
    /\ planLog.built /\ ~loadOut.done
    /\ \E require_filled \in BOOLEAN :
          LET out == load_patch_plan(planDoc, NoExpectedFile, require_filled)
          IN  loadOut' = [done |-> TRUE, require_filled |-> require_filled,
                          raised |-> out.raised, error |-> out.error, plan |-> out.plan]
    /\ UNCHANGED <<planDoc, planLog>>

----------------------------------------------------------------------------
\* Patch application: patch.py (the guard, inject and todo strategies), api.py
\* (patch_file, apply_patch_plan) and the application of a plan to its file.

\* Bounds: no command runs on a file longer than MaxSourceLines - 2 lines or
\* with MaxHistory history entries.
MaxSourceLines == 8
MaxHistory == 2

\* A source file is the sequence of its lines (its text is the lines joined,
\* with a trailing newline), a line the sequence of its pieces.  Function
\* bodies are indented by one Indent; a function extends to the line before
\* the next module-level def.
Shebang == "#!/usr/bin/env python"
Note == "# note"
Docstring == "'''doc'''"
FunctionDefs == {"def f(x):", "def f():"}
PatchFixes == {"handle None"}

DefName(piece) == "f"
DefArg(piece) == IF piece = "def f(x):" THEN "x" ELSE ""

TodoComment(fix) == "# TODO(neurocode): " \o fix
GuardIf(arg) == "if " \o arg \o " is None:"
GuardRaise(fix) == "raise ValueError(\"neurocode guard: " \o fix \o "\")"
StubRaise(fix) == "raise NotImplementedError(\"neurocode inject: " \o fix \o "\")"

IsBlank(line) == strip(line) = <<>>

IsComment(line) ==
    /\ strip(line) # <<>>
    /\ strip(line)[1] \in {Shebang, Note} \cup {TodoComment(fix) : fix \in PatchFixes}

IsDef(line) == Len(line) = 1 /\ line[1] \in FunctionDefs

SourceChoices ==
    { << <<"def f(x):">>, <<Indent, "pass">> >>,
      << <<Shebang>>, <<"def f(x):">>, <<Indent, Docstring>>, <<Indent, Note>>,
         <<Indent, "pass">> >>,
      << <<"def f():">>, <<Indent, "pass">> >>,
      << <<"x = 0">> >> }

\* ir_build: the FunctionIR of the first module-level function of the file, as
\* the IR built from the file records it.
NoFunction == [present |-> FALSE, name |-> "", lineno |-> 0]

IrTargetOf(lines) ==
    LET defs == {i \in 1..Len(lines) : IsDef(lines[i])}
    IN  IF defs = {} THEN NoFunction
        ELSE LET d == CHOOSE i \in defs : \A j \in defs : i <= j
             IN  [present |-> TRUE, name |-> DefName(lines[d][1]), lineno |-> d]

\* patch._select_target_function: `target` is a name, or NoTargetArg for None.
NoTargetArg == ""

_select_target_function(module_fn, target) ==
    IF target # NoTargetArg
    THEN (IF module_fn.present /\ module_fn.name = target THEN module_fn ELSE NoFunction)
    ELSE module_fn

\* The ast.FunctionDef with the lineno and name of target_fn: its line, or 0.
FuncNode(lines, target_fn) ==
    IF /\ target_fn.lineno >= 1 /\ target_fn.lineno <= Len(lines)
       /\ IsDef(lines[target_fn.lineno])
       /\ DefName(lines[target_fn.lineno][1]) = target_fn.name
    THEN target_fn.lineno ELSE 0

\* The last line of the function whose def is line d, and its statements.
ExtentEnd(lines, d) ==
    LET later == {i \in (d + 1)..Len(lines) : IsDef(lines[i])}
    IN  IF later = {} THEN Len(lines) ELSE (CHOOSE i \in later : \A j \in later : i <= j) - 1

BodyStatements(lines, d) ==
    {i \in (d + 1)..ExtentEnd(lines, d) : ~IsBlank(lines[i]) /\ ~IsComment(lines[i])}

SetMin(S) == CHOOSE i \in S : \A j \in S : i <= j
SetMax(S) == CHOOSE i \in S : \A j \in S : i >= j

\* The end_lineno of the ast.FunctionDef at line d.
AstEndLineno(lines, d) ==
    IF BodyStatements(lines, d) = {} THEN d ELSE SetMax(BodyStatements(lines, d))

\* The check for an existing guard when it finds none in any body.
GuardNeverFound(lines, d) == FALSE

\* patch._has_neurocode_guard
_has_neurocode_guard(lines, d) ==
    \E i \in BodyStatements(lines, d) :
        strip(lines[i])[1] \in {GuardRaise(fix) : fix \in PatchFixes}

\* _inject_stub: a `raise NotImplementedError(...)` statement in the body.
HasStub(lines, d) ==
    \E i \in BodyStatements(lines, d) :
        strip(lines[i])[1] \in {StubRaise(fix) : fix \in PatchFixes}

RECURSIVE SkipBlankAndComments(_, _)
SkipBlankAndComments(lines, insert_at) ==
    IF insert_at < Len(lines)
       /\ (IsBlank(lines[insert_at + 1]) \/ IsComment(lines[insert_at + 1]))
    THEN SkipBlankAndComments(lines, insert_at + 1)
    ELSE insert_at

\* patch._body_insert_index: the 0-based index to insert at.
_body_insert_index(lines, d) ==
    LET body == BodyStatements(lines, d)
        first == IF body = {} THEN d ELSE
                     LET fs == SetMin(body)
                     IN  IF strip(lines[fs]) = <<Docstring>> THEN fs ELSE fs - 1
    IN  SkipBlankAndComments(lines, first)

\* lines[insert_at:insert_at] = new
InsertAt(lines, insert_at, new) ==
    SubSeq(lines, 1, insert_at) \o new \o SubSeq(lines, insert_at + 1, Len(lines))

\* patch._insert_guard_clause: whether the guard is in place, and the lines.
_insert_guard_clause(lines, target_fn, fix) ==
    LET d == FuncNode(lines, target_fn)
    IN  IF d = 0 \/ DefArg(lines[d][1]) = ""
        THEN [inserted |-> FALSE, lines |-> lines]
        ELSE IF _has_neurocode_guard(lines, d)
        THEN [inserted |-> TRUE, lines |-> lines]
        ELSE [inserted |-> TRUE,
              lines |-> InsertAt(lines, _body_insert_index(lines, d),
                                 << <<Indent, GuardIf(DefArg(lines[d][1]))>>,
                                    <<Indent, Indent, GuardRaise(fix)>> >>)]

\* patch._inject_stub
_inject_stub(lines, target_fn, fix) ==
    LET d == FuncNode(lines, target_fn)
    IN  IF d = 0 THEN [inserted |-> FALSE, lines |-> lines]
        ELSE IF HasStub(lines, d) THEN [inserted |-> TRUE, lines |-> lines]
        ELSE [inserted |-> TRUE,
              lines |-> InsertAt(lines, _body_insert_index(lines, d),
                                 << <<Indent, StubRaise(fix)>> >>)]

\* patch._render_diff: empty when the lines are equal, else the change.
_render_diff(old, new) == IF old = new THEN <<>> ELSE <<old, new>>

\* `if not dry_run: file.write_text(new_text)`: the file after the command.
FileAfterIgnoringDryRun(lines, working_lines, dry_run) == working_lines

FileAfter(lines, working_lines, dry_run) == IF dry_run THEN lines ELSE working_lines

PatchResult(lines, working_lines, no_change, dry_run) ==
    [raised |-> FALSE, error |-> "", working_lines |-> working_lines,
     no_change |-> no_change,
     diff |-> IF no_change THEN <<>> ELSE _render_diff(lines, working_lines),
     file |-> IF no_change THEN lines ELSE FileAfter(lines, working_lines, dry_run)]

PatchRaised(lines, error) ==
    [raised |-> TRUE, error |-> error, working_lines |-> lines, no_change |-> FALSE,
     diff |-> <<>>, file |-> lines]

\* The todo fallback of apply_patch.
InsertTodo(lines, fix, dry_run) ==
    IF \E i \in 1..Len(lines) : strip(lines[i]) = <<TodoComment(fix)>>
    THEN PatchResult(lines, lines, TRUE, dry_run)
    ELSE LET insert_at == IF lines # <<>> /\ lines[1] # <<>> /\ lines[1][1] = Shebang
                          THEN 1 ELSE 0
         IN  PatchResult(lines, InsertAt(lines, insert_at, << <<TodoComment(fix)>> >>),
                         FALSE, dry_run)

\* patch.apply_patch, for the module of the file.
apply_patch(lines, module_fn, fix, strategy, target, dry_run) ==
    LET target_fn == _select_target_function(module_fn, target)
        guard == _insert_guard_clause(lines, target_fn, fix)
        stub == _inject_stub(lines, target_fn, fix)
    IN  IF target # NoTargetArg /\ ~target_fn.present
        THEN PatchRaised(lines, "target not found")
        ELSE IF strategy = "guard" /\ target_fn.present /\ guard.inserted
        THEN PatchResult(lines, guard.lines, _render_diff(lines, guard.lines) = <<>>, dry_run)
        ELSE IF strategy = "inject" /\ target_fn.present /\ stub.inserted
        THEN PatchResult(lines, stub.lines, _render_diff(lines, stub.lines) = <<>>, dry_run)
        ELSE InsertTodo(lines, fix, dry_run)

\* str.splitlines() of a code text.
RECURSIVE SplitLinesFrom(_, _)
SplitLinesFrom(code, current) ==
    IF code = <<>> THEN (IF current = <<>> THEN <<>> ELSE <<current>>)
    ELSE IF Head(code) = NL THEN <<current>> \o SplitLinesFrom(Tail(code), <<>>)
    ELSE SplitLinesFrom(Tail(code), Append(current, Head(code)))

SplitLines(code) == SplitLinesFrom(code, <<>>)

\* The operations of a plan in application order: by lineno, descending, the
\* order of the plan kept among equal linenos.
RECURSIVE SortDescending(_)
\* The operations in the order the plan lists them.
KeepPlanOrder(ops) == ops

SortDescending(ops) ==
    IF ops = <<>> THEN <<>>
    ELSE LET top == SetMin({i \in 1..Len(ops) : \A j \in 1..Len(ops) : ops[i].lineno >= ops[j].lineno})
         IN  <<ops[top]>> \o SortDescending(SubSeq(ops, 1, top - 1) \o SubSeq(ops, top + 1, Len(ops)))

\* The literal effect of an operation is already in the file.
PresentAt(lines, at, text) ==
    /\ at >= 0 /\ at + Len(text) <= Len(lines)
    /\ SubSeq(lines, at + 1, at + Len(text)) = text

\* The def line of the function a plan symbol names, or 0.
SymbolName(symbol) == IF symbol = <<"pkg.mod.f">> THEN "f" ELSE "gone"

FuncBySymbol(lines, symbol) ==
    LET defs == {i \in 1..Len(lines) : IsDef(lines[i]) /\ DefName(lines[i][1]) = SymbolName(symbol)}
    IN  IF defs = {} THEN 0 ELSE SetMin(defs)

NotPlaced == [ok |-> FALSE, lines |-> <<>>]
Placed(lines) == [ok |-> TRUE, lines |-> lines]

\* One operation applied to the working lines: the lines after it, or
\* NotPlaced when its anchor line or function is not in the file.  An
\* operation whose text is already at its place leaves the lines as they are.
PlaceOp(lines, op) ==
    LET text == SplitLines(op.code)
    IN  CASE op.op = "insert_before" ->
                IF PresentAt(lines, op.lineno - 1, text) THEN Placed(lines)
                ELSE IF op.lineno > Len(lines) THEN NotPlaced
                ELSE Placed(InsertAt(lines, op.lineno - 1, text))
          [] op.op = "insert_after" ->
                IF PresentAt(lines, op.lineno, text) THEN Placed(lines)
                ELSE IF op.lineno > Len(lines) THEN NotPlaced
                ELSE Placed(InsertAt(lines, op.lineno, text))
          [] op.op = "replace_range" ->
                IF PresentAt(lines, op.lineno - 1, text) THEN Placed(lines)
                ELSE IF op.end_lineno = NoneId \/ op.end_lineno > Len(lines) THEN NotPlaced
                ELSE Placed(SubSeq(lines, 1, op.lineno - 1) \o text
                            \o SubSeq(lines, op.end_lineno + 1, Len(lines)))
          [] OTHER ->
                LET d == FuncBySymbol(lines, op.symbol)
                    end == AstEndLineno(lines, d)
                IN  IF d = 0 THEN NotPlaced
                    ELSE IF PresentAt(lines, end - 1 - Len(text), text) THEN Placed(lines)
                    ELSE Placed(InsertAt(lines, end - 1, text))

RECURSIVE PlaceAll(_, _)
PlaceAll(lines, ops) ==
    IF ops = <<>> THEN Placed(lines)
    ELSE LET first == PlaceOp(lines, Head(ops))
         IN  IF first.ok THEN PlaceAll(first.lines, Tail(ops)) ELSE NotPlaced

\* patch.apply_patch_plan_from_disk: load the plan for application to the
\* file, place every enabled operation on a copy of the lines, and write the
\* result unless dry_run or nothing changed.
apply_patch_plan_from_disk(lines, data, dry_run, show_diff) ==
    LET loaded == load_patch_plan(data, <<TargetFile>>, TRUE)
    IN  IF loaded.raised THEN PatchRaised(lines, loaded.error)
        ELSE LET IsEnabled(op) == op.enabled
                 ops == SortDescending(SelectSeq(loaded.plan.operations, IsEnabled))
                 placed == PlaceAll(lines, ops)
             IN  IF ~placed.ok THEN PatchRaised(lines, "anchor")
                 ELSE [raised |-> FALSE, error |-> "", working_lines |-> placed.lines,
                       no_change |-> placed.lines = lines,
                       diff |-> IF show_diff \/ dry_run
                                THEN _render_diff(lines, placed.lines) ELSE <<>>,
                       file |-> IF dry_run THEN lines ELSE placed.lines]

\* The operations a plan author writes, and the plans made of them.
PlanOp(op, lineno, end_lineno, symbol, code, enabled, file) ==
    [op |-> op, lineno |-> lineno, end_lineno |-> end_lineno, symbol |-> symbol,
     code |-> code, enabled |-> enabled, file |-> file]

FarLine == MaxSourceLines + 1

OpChoices ==
    {PlanOp("insert_before", l, NoneId, "pkg.mod.f", <<"x = 1">>, TRUE, TargetFile) :
        l \in {1, 2, FarLine}}
    \cup {PlanOp("insert_after", l, NoneId, "pkg.mod.f", <<"x = 1", NL, "y = 2">>, TRUE,
                 TargetFile) : l \in {1, FarLine}}
    \cup {PlanOp("replace_range", l[1], l[2], "pkg.mod.f", <<"x = 1">>, TRUE, TargetFile) :
             l \in {<<1, 1>>, <<2, 1>>, <<1, NoneId>>, <<FarLine, FarLine>>}}
    \cup {PlanOp("append_to_function", 1, NoneId, s, <<Indent, "x = 1">>, TRUE, TargetFile) :
             s \in {"pkg.mod.f", "pkg.mod.gone"}}
    \cup {PlanOp("insert_before", 1, NoneId, "pkg.mod.f", <<" ">>, TRUE, TargetFile),
          PlanOp("insert_before", 1, NoneId, "pkg.mod.f", <<"x = 1">>, FALSE, TargetFile),
          PlanOp("insert_before", 1, NoneId, "pkg.mod.f", <<"x = 1">>, TRUE, "pkg/use1.py")}

\* Operations no application places: an anchor line past the end of the file,
\* a function the file does not define, no code.
FailingOps ==
    {PlanOp("insert_before", FarLine, NoneId, "pkg.mod.f", <<"z = 3">>, TRUE, TargetFile),
     PlanOp("append_to_function", 1, NoneId, "pkg.mod.gone", <<Indent, "z = 3">>, TRUE,
            TargetFile),
     PlanOp("insert_before", 1, NoneId, "pkg.mod.f", <<>>, TRUE, TargetFile)}

\* Operations every file has the anchor of.
PlaceableOps ==
    {PlanOp("insert_before", 1, NoneId, "pkg.mod.f", <<"x = 1">>, TRUE, TargetFile),
     PlanOp("insert_after", 1, NoneId, "pkg.mod.f", <<"x = 1", NL, "y = 2">>, TRUE, TargetFile)}

\* A plan is one operation, or a placeable operation and one that cannot be
\* placed, in either order.
PlanChoices ==
    {<<a>> : a \in OpChoices}
    \cup {<<a, b>> : a \in PlaceableOps, b \in FailingOps}
    \cup {<<b, a>> : a \in PlaceableOps, b \in FailingOps}

\* Plans of two operations with line anchors: insertions before and after a
\* line and replacements of a range, each with a text of its own.
OrderOps ==
    {PlanOp("insert_before", l, NoneId, "pkg.mod.f", <<"x = 1">>, TRUE, TargetFile) :
        l \in 1..3}
    \cup {PlanOp("insert_after", l, NoneId, "pkg.mod.f", <<"y = 2", NL, "y = 3">>, TRUE,
                 TargetFile) : l \in 1..2}
    \cup {PlanOp("replace_range", l[1], l[2], "pkg.mod.f", <<"z = 4">>, TRUE, TargetFile) :
             l \in {<<1, 1>>, <<1, 2>>, <<2, 2>>}}

OrderPlans == {<<a, b>> : a \in OrderOps, b \in OrderOps} \ {<<a, a>> : a \in OrderOps}

\* The plan document with the given operations.
OperationJson(op, n) ==
    JObj([op |-> JStr(<<op.op>>), id |-> JStr(<<"OP_" \o ToString(n)>>),
          file |-> JStr(<<op.file>>), symbol |-> JStr(<<op.symbol>>),
          lineno |-> JInt(op.lineno),
          end_lineno |-> IF op.end_lineno = NoneId THEN JNull ELSE JInt(op.end_lineno),
          code |-> JStr(op.code), description |-> JStr(<<"Implement fix">>),
          enabled |-> JBool(op.enabled)])

PlanDocOf(ops) ==
    [build_patch_plan_bundle(NoTargetFn, 0, 0, FALSE, <<"handle None">>)
        EXCEPT !.v.operations = JArr([n \in 1..Len(ops) |-> OperationJson(ops[n], n)])]

NoPatchOut ==
    [cmd |-> "none", dry_run |-> FALSE, raised |-> FALSE, error |-> "", is_noop |-> FALSE,
     files_changed |-> <<>>, diff |-> <<>>, before |-> <<>>, planned |-> <<>>,
     history_before |-> <<>>, repeat |-> FALSE, fix |-> "", strategy |-> "",
     target |-> "", format |-> "", exit_code |-> 0]

\* NeurocodeProject.apply_patch_plan
ApiApplyPatchPlan ==
    /\ Len(source) + 2 <= MaxSourceLines
    /\ \E dry_run \in BOOLEAN, show_diff \in BOOLEAN :
          LET result == apply_patch_plan_from_disk(source, PlanDocOf(patchPlan), dry_run,
                                                   show_diff \/ dry_run)
          IN  /\ source' = result.file
              /\ patchOut' =
                    [cmd |-> "plan", dry_run |-> dry_run, raised |-> result.raised,
                     error |-> result.error, is_noop |-> result.no_change,
                     files_changed |-> IF result.raised THEN <<>> ELSE <<TargetFile>>,
                     diff |-> result.diff, before |-> source,
                     planned |-> result.working_lines, history_before |-> history,
                     repeat |-> /\ patchOut.cmd = "plan" /\ ~patchOut.dry_run
                                /\ ~patchOut.raised /\ ~patchOut.is_noop,
                     fix |-> "handle None", strategy |-> "", target |-> "",
                     format |-> "", exit_code |-> 0]
    /\ UNCHANGED <<irTarget, patchPlan, history>>

\* NeurocodeProject.patch_file
PatchFile ==
    /\ Len(source) + 2 <= MaxSourceLines
    /\ Len(history) < MaxHistory
    /\ \E strategy \in {"guard", "inject", "todo"}, target \in {NoTargetArg, "gone"},
          dry_run \in BOOLEAN, fix \in PatchFixes :
          LET result == apply_patch(source, irTarget, fix, strategy, target, dry_run)
          IN  /\ source' = result.file
              /\ history' =
                    IF ~result.raised /\ ~dry_run /\ ~result.no_change
                    THEN Append(history, [fix |-> fix, files_changed |-> <<TargetFile>>,
                                          is_noop |-> result.no_change])
                    ELSE history
              /\ patchOut' =
                    [cmd |-> "patch", dry_run |-> dry_run, raised |-> result.raised,
                     error |-> result.error, is_noop |-> result.no_change,
                     files_changed |-> IF result.raised THEN <<>> ELSE <<TargetFile>>,
                     diff |-> result.diff, before |-> source,
                     planned |-> result.working_lines, history_before |-> history,
                     repeat |-> FALSE, fix |-> fix, strategy |-> "", target |-> "",
                     format |-> "", exit_code |-> 0]
    /\ UNCHANGED <<irTarget, patchPlan>>

\* The patch command before this one applied the same fix with the same
\* strategy and target to the file, not as a dry run, and this one is no dry
\* run either.
SamePatchAgain(fix, strategy, target, dry_run) ==
    /\ patchOut.cmd = "cli_patch"
    /\ ~patchOut.raised /\ ~patchOut.dry_run /\ ~dry_run
    /\ patchOut.fix = fix /\ patchOut.strategy = strategy /\ patchOut.target = target

\* The exit status of the `patch` command of cli.main once apply_patch_from_disk
\* has returned: sys.exit(3) is in the branch of the text format.
PatchExitStatus(no_change, dry_run, format) ==
    IF format = "json" THEN 0
    ELSE IF no_change /\ ~dry_run THEN 3 ELSE 0

\* cli.main, command `patch`: apply_patch_from_disk, exit 1 on RuntimeError,
\* then the output in the chosen format.
CliPatch ==
    /\ Len(source) + 2 <= MaxSourceLines
    /\ \E strategy \in {"guard", "inject", "todo"}, target \in {NoTargetArg, "f", "gone"},
          dry_run \in BOOLEAN, fix \in PatchFixes, format \in {"text", "json"} :
          LET result == apply_patch(source, irTarget, fix, strategy, target, dry_run)
          IN  /\ source' = result.file
              /\ patchOut' =
                    [cmd |-> "cli_patch", dry_run |-> dry_run, raised |-> result.raised,
                     error |-> result.error, is_noop |-> result.no_change,
                     files_changed |-> IF result.raised THEN <<>> ELSE <<TargetFile>>,
                     diff |-> result.diff, before |-> source,
                     planned |-> result.working_lines, history_before |-> history,
                     repeat |-> SamePatchAgain(fix, strategy, target, dry_run),
                     fix |-> fix, strategy |-> strategy, target |-> target,
                     format |-> format,
                     exit_code |-> IF result.raised THEN 1
                                   ELSE PatchExitStatus(result.no_change, dry_run, format)]
    /\ UNCHANGED <<irTarget, patchPlan, history>>
----------------------------------------------------------------------------
\* Call resolution: ir_build.py (the AST visitor and both passes of
\* build_repository_ir) and the callers query of query.py.
\*
\* A dotted name (a module name, a qualified name, a call target, a base-class
\* expression) is the sequence of its parts: "pkg.mod.fn" is <<"pkg", "mod",
\* "fn">>, and a call target whose root is no bare name keeps the rendering of
\* the root as its first part ("super().m" is <<"super()", "m">>).

\* What the visitor meets in one source file, in source order.  A def names
\* the class whose body holds it (an index into classes, 0 for none) and the
\* def it is nested in (an index into defs, 0 for none); file_scope holds the
\* targets of the calls outside every function.
SourceImport(kind, module, name, alias) ==
    [kind |-> kind, module |-> module, name |-> name, alias |-> alias]

SourceClass(name, bases) == [name |-> name, bases |-> bases]

SourceDef(name, cls, parent, calls) ==
    [name |-> name, cls |-> cls, parent |-> parent, calls |-> calls]

SourceModule(name, imports, classes, defs, file_scope) ==
    [name |-> name, imports |-> imports, classes |-> classes, defs |-> defs,
     file_scope |-> file_scope]

\* _IRVisitor._handle_function appends a function when its body has been
\* visited: the defs nested in a def come before it in `functions`.
RECURSIVE CompletionOrder(_, _)
CompletionOrder(defs, i) ==
    IF i > Len(defs) THEN <<>>
    ELSE IF defs[i].parent # 0 THEN CompletionOrder(defs, i + 1)
    ELSE LET nested == {j \in 1..Len(defs) : defs[j].parent = i}
             inner == [k \in 1..Cardinality(nested) |->
                          CHOOSE j \in nested : Cardinality({h \in nested : h < j}) = k - 1]
         IN  inner \o <<i>> \o CompletionOrder(defs, i + 1)

\* The renderings of a super call at the root of a call target:
\* `prefix.startswith("super()") or prefix.startswith("super(")`.
SuperPrefixes == {"super()", "super(Derived, self)"}

\* _IRVisitor.visit_Call on the k-th call expression of def i: the call is
\* recorded with its rendered target, then generic_visit meets the calls
\* inside it, the `super(...)` call at the root of a super target.
visit_Call(i, k, target) ==
    <<[lineno |-> 10 * i + k, target |-> target]>>
    \o (IF target[1] \in SuperPrefixes
        THEN <<[lineno |-> 10 * i + k, target |-> <<"super">>]>> ELSE <<>>)

\* The class stack at a def: a nested def is in the class of the def around it.
ClassOfDef(defs, i) == IF defs[i].parent # 0 THEN defs[defs[i].parent].cls ELSE defs[i].cls

\* _IRVisitor._handle_function: the FunctionIR of def i of module m, before
\* the repository-wide ids are assigned.
_handle_function(m, module_id, i) ==
    LET d == m.defs[i]
        c == ClassOfDef(m.defs, i)
    IN  [module_id |-> module_id,
         name |-> d.name,
         qualified_name |-> m.name \o (IF c = 0 THEN <<>> ELSE <<m.classes[c].name>>)
                            \o <<d.name>>,
         lineno |-> i,
         parent_class |-> c,
         calls |-> Flatten([k \in 1..Len(d.calls) |-> visit_Call(i, k, d.calls[k])])]

\* _IRVisitor.visit_ClassDef
visit_ClassDef(m, module_id, c) ==
    [module_id |-> module_id, name |-> m.classes[c].name,
     qualified_name |-> m.name \o <<m.classes[c].name>>,
     base_names |-> m.classes[c].bases]

\* The visitor's result for one file: imports, classes and functions, calls
\* at file scope dropped (visit_Call with an empty function stack).
VisitModule(m, module_id) ==
    LET order == CompletionOrder(m.defs, 1)
    IN  [id |-> module_id, module_name |-> m.name, imports |-> m.imports,
         classes |-> [c \in 1..Len(m.classes) |-> visit_ClassDef(m, module_id, c)],
         functions |-> [k \in 1..Len(order) |-> _handle_function(m, module_id, order[k])]]

RECURSIVE CountBefore(_, _, _)
CountBefore(modules, i, field) ==
    IF i <= 1 THEN 0
    ELSE Len(modules[i - 1][field]) + CountBefore(modules, i - 1, field)

\* The second pass of build_repository_ir: the id of the k-th function of
\* the module that `before` functions precede.
VisitorLocalId(before, k) == k - 1

RepositoryFunctionId(before, k) == before + k - 1

\* The first and second pass of build_repository_ir: the modules with the
\* repository-wide class and function ids; parent_class_id is the id of the
\* function's class.
AssignIds(tree) ==
    LET visited == [i \in 1..Len(tree) |-> VisitModule(tree[i], i - 1)]
    IN  [i \in 1..Len(tree) |->
            [visited[i] EXCEPT
                !.classes = [c \in 1..Len(visited[i].classes) |->
                                [module_id |-> visited[i].classes[c].module_id,
                                 name |-> visited[i].classes[c].name,
                                 qualified_name |-> visited[i].classes[c].qualified_name,
                                 base_names |-> visited[i].classes[c].base_names,
                                 id |-> CountBefore(visited, i, "classes") + c - 1]],
                !.functions = [k \in 1..Len(visited[i].functions) |->
                                  [module_id |-> visited[i].functions[k].module_id,
                                   name |-> visited[i].functions[k].name,
                                   qualified_name |-> visited[i].functions[k].qualified_name,
                                   lineno |-> visited[i].functions[k].lineno,
                                   calls |-> visited[i].functions[k].calls,
                                   parent_class_id |->
                                       IF visited[i].functions[k].parent_class = 0 THEN NoneId
                                       ELSE CountBefore(visited, i, "classes")
                                            + visited[i].functions[k].parent_class - 1,
                                   id |-> RepositoryFunctionId(
                                              CountBefore(visited, i, "functions"), k)]]]]

ModulesFunctions(modules) == Flatten([i \in 1..Len(modules) |-> modules[i].functions])
ModulesClasses(modules) == Flatten([i \in 1..Len(modules) |-> modules[i].classes])

\* The lookup by qualified name giving the position of the function in the
\* list of functions in place of its id.
FunctionPositionByQualified(functions, name) ==
    LET hits == {k \in 1..Len(functions) : functions[k].qualified_name = name}
    IN  IF hits = {} THEN NoneId ELSE SetMax(hits)

\* function_by_qualified.get(name): a later function replaces an earlier one
\* of the same qualified name.  The id of the function, or NoneId.
function_by_qualified(functions, name) ==
    LET hits == {k \in 1..Len(functions) : functions[k].qualified_name = name}
    IN  IF hits = {} THEN NoneId ELSE functions[SetMax(hits)].id

\* class_by_qualified_name.get(name): the index into `classes`, or 0.
class_by_qualified_name(classes, name) ==
    LET hits == {k \in 1..Len(classes) : classes[k].qualified_name = name}
    IN  IF hits = {} THEN 0 ELSE SetMax(hits)

\* class_lookup.get(name) for the module of the caller: its classes by simple
\* name, by qualified name and by the name local to the module.  The index
\* into the classes of the repository, or 0.
class_lookup(classes, module, name) ==
    LET hits == {k \in 1..Len(classes) :
                    /\ classes[k].module_id = module.id
                    /\ \/ name = <<classes[k].name>>
                       \/ name = classes[k].qualified_name}
    IN  IF hits = {} THEN 0 ELSE SetMax(hits)

\* build_repository_ir._resolve_class_name
_resolve_class_name(classes, module, name) ==
    IF name = <<>> THEN 0
    ELSE IF class_lookup(classes, module, name) # 0 THEN class_lookup(classes, module, name)
    ELSE IF class_by_qualified_name(classes, name) # 0
    THEN class_by_qualified_name(classes, name)
    ELSE IF Len(name) > 1 /\ class_lookup(classes, module, Tail(name)) # 0
    THEN class_lookup(classes, module, Tail(name))
    ELSE IF Len(name) > 1 THEN class_by_qualified_name(classes, Tail(name))
    ELSE 0

\* build_repository_ir._iter_class_hierarchy: the classes reached from the
\* stack, popped from its end, each once.
RECURSIVE WalkHierarchy(_, _, _, _)
WalkHierarchy(classes, module, stack, ordered) ==
    IF stack = <<>> THEN ordered
    ELSE LET cls == stack[Len(stack)]
             rest == SubSeq(stack, 1, Len(stack) - 1)
             seen == {ordered[k] : k \in 1..Len(ordered)} \cup {cls}
             bases == [k \in 1..Len(classes[cls].base_names) |->
                          _resolve_class_name(classes, module, classes[cls].base_names[k])]
             IsNew(c) == c # 0 /\ c \notin seen
         IN  IF cls \in {ordered[k] : k \in 1..Len(ordered)}
             THEN WalkHierarchy(classes, module, rest, ordered)
             ELSE WalkHierarchy(classes, module, rest \o SelectSeq(bases, IsNew),
                                Append(ordered, cls))

_iter_class_hierarchy(classes, module, start_cls) ==
    WalkHierarchy(classes, module, <<start_cls>>, <<>>)

\* The first class of the candidates with a function <class>.<method_name>.
RECURSIVE FirstDefiner(_, _, _, _)
FirstDefiner(functions, classes, candidates, method_name) ==
    IF candidates = <<>> THEN NoneId
    ELSE LET found == function_by_qualified(
                          functions, classes[Head(candidates)].qualified_name \o <<method_name>>)
         IN  IF found # NoneId THEN found
             ELSE FirstDefiner(functions, classes, Tail(candidates), method_name)

\* 1) Fully-qualified function name.
StepQualified(functions, target) == function_by_qualified(functions, target)

\* 2) Local function in the same module: the first of module.functions whose
\* name is the target.
StepLocal(functions, module, target) ==
    LET hits == {k \in 1..Len(module.functions) : <<module.functions[k].name>> = target}
    IN  IF hits = {} THEN NoneId ELSE module.functions[SetMin(hits)].id

\* The hierarchy step when a super() target also looks in the owning class.
StepHierarchyFromOwner(functions, classes, module, fn, target) ==
    IF Len(target) < 2 \/ fn.parent_class_id = NoneId THEN NoneId
    ELSE IF target[1] \in {"self", "cls"} \cup SuperPrefixes
    THEN FirstDefiner(functions, classes,
                      _iter_class_hierarchy(classes, module, fn.parent_class_id + 1),
                      target[2])
    ELSE NoneId

\* 2b) Methods referenced via self, cls or super().
StepHierarchy(functions, classes, module, fn, target) ==
    IF Len(target) < 2 \/ fn.parent_class_id = NoneId THEN NoneId
    ELSE LET hierarchy == _iter_class_hierarchy(classes, module, fn.parent_class_id + 1)
         IN  IF target[1] \in {"self", "cls"}
             THEN FirstDefiner(functions, classes, hierarchy, target[2])
             ELSE IF target[1] \in SuperPrefixes
             THEN FirstDefiner(functions, classes, Tail(hierarchy), target[2])
             ELSE NoneId

\* func_imports.get(target): the last `from` import binding the local name,
\* as an index into module.imports, or 0.
func_imports(module, target) ==
    LET Local(imp) == IF imp.alias # "" THEN imp.alias ELSE imp.name[1]
        hits == {k \in 1..Len(module.imports) :
                    /\ module.imports[k].kind = "from"
                    /\ <<Local(module.imports[k])>> = target}
    IN  IF hits = {} THEN 0 ELSE SetMax(hits)

\* 3) Imported function via "from module import name".
StepFromImport(functions, module, target) ==
    LET k == func_imports(module, target)
    IN  IF k = 0 \/ module.imports[k].module = <<>> THEN NoneId
        ELSE function_by_qualified(functions,
                                   module.imports[k].module \o module.imports[k].name)

\* module_aliases.get(prefix): the last `import` binding the local name (the
\* alias, or the last part of the imported module's name).
module_aliases(module, prefix) ==
    LET Local(imp) == IF imp.alias # "" THEN imp.alias ELSE imp.name[Len(imp.name)]
        hits == {k \in 1..Len(module.imports) :
                    module.imports[k].kind = "import" /\ Local(module.imports[k]) = prefix}
    IN  IF hits = {} THEN 0 ELSE SetMax(hits)

\* 4) Module alias + attribute: alias.func
StepModuleAlias(functions, module, target) ==
    IF Len(target) < 2 \/ module_aliases(module, target[1]) = 0 THEN NoneId
    ELSE function_by_qualified(
             functions, module.imports[module_aliases(module, target[1])].name \o <<target[2]>>)

\* 5) Direct class reference: ClassName.method
StepClassMethod(functions, classes, module, target) ==
    IF Len(target) < 2 THEN NoneId
    ELSE LET cls == class_lookup(classes, module, SubSeq(target, 1, Len(target) - 1))
         IN  IF cls = 0 THEN NoneId
             ELSE function_by_qualified(functions,
                                        classes[cls].qualified_name \o <<target[Len(target)]>>)

\* The callee of one call site, when every later step replaces the result of
\* the steps before it.
ResolveLastStepWins(functions, classes, module, fn, target) ==
    IF StepClassMethod(functions, classes, module, target) # NoneId
    THEN StepClassMethod(functions, classes, module, target)
    ELSE IF StepModuleAlias(functions, module, target) # NoneId
    THEN StepModuleAlias(functions, module, target)
    ELSE IF StepFromImport(functions, module, target) # NoneId
    THEN StepFromImport(functions, module, target)
    ELSE IF StepHierarchy(functions, classes, module, fn, target) # NoneId
    THEN StepHierarchy(functions, classes, module, fn, target)
    ELSE IF StepLocal(functions, module, target) # NoneId
    THEN StepLocal(functions, module, target)
    ELSE StepQualified(functions, target)

\* The callee_id build_repository_ir computes for one call site: each step
\* runs only `if callee_id is None`.
ResolveCallee(functions, classes, module, fn, target) ==
    IF StepQualified(functions, target) # NoneId THEN StepQualified(functions, target)
    ELSE IF StepLocal(functions, module, target) # NoneId
    THEN StepLocal(functions, module, target)
    ELSE IF StepHierarchy(functions, classes, module, fn, target) # NoneId
    THEN StepHierarchy(functions, classes, module, fn, target)
    ELSE IF StepFromImport(functions, module, target) # NoneId
    THEN StepFromImport(functions, module, target)
    ELSE IF StepModuleAlias(functions, module, target) # NoneId
    THEN StepModuleAlias(functions, module, target)
    ELSE StepClassMethod(functions, classes, module, target)

\* toon_parse: symbol_id is <module>:<qualname>, qualname the qualified name
\* without the module prefix.
SymbolId(modules, fn) ==
    LET module_name == modules[fn.module_id + 1].module_name
    IN  <<module_name, SubSeq(fn.qualified_name, Len(module_name) + 1, Len(fn.qualified_name))>>

\* The symbol ids of an edge: the caller's, and the callee's when resolved.
NoSymbol == <<>>

EdgeSymbols(modules, caller, callee_id) ==
    LET functions == ModulesFunctions(modules)
        callees == {k \in 1..Len(functions) : functions[k].id = callee_id}
    IN  [caller_symbol_id |-> SymbolId(modules, caller),
         callee_symbol_id |-> IF callees = {} THEN NoSymbol
                              ELSE SymbolId(modules, functions[SetMin(callees)])]

\* The CallEdgeIR of the k-th call of a function.
CallEdge(modules, module, fn, k) ==
    LET callee_id == ResolveCallee(ModulesFunctions(modules), ModulesClasses(modules),
                                   module, fn, fn.calls[k].target)
    IN  [caller_function_id |-> fn.id,
         callee_function_id |-> callee_id,
         lineno |-> fn.calls[k].lineno,
         target |-> fn.calls[k].target,
         symbols |-> EdgeSymbols(modules, fn, callee_id)]

\* The edges of the calls of one function: `call_edges.append(...)` once per
\* call, resolved or not.
EdgesDroppingUnresolved(modules, module, fn) ==
    LET Resolved(e) == e.callee_function_id # NoneId
    IN  SelectSeq([k \in 1..Len(fn.calls) |-> CallEdge(modules, module, fn, k)], Resolved)

FunctionEdges(modules, module, fn) ==
    [k \in 1..Len(fn.calls) |-> CallEdge(modules, module, fn, k)]

\* build_repository_ir on a source tree (the files in discovery order): the
\* modules and the call edges, module by module, function by function.
BuildTree(tree) ==
    LET modules == AssignIds(tree)
    IN  [modules |-> modules,
         call_edges |->
             Flatten([i \in 1..Len(modules) |->
                         Flatten([k \in 1..Len(modules[i].functions) |->
                                     FunctionEdges(modules, modules[i],
                                                   modules[i].functions[k])])])]

\* The functions _resolve_function collects for a symbol: those with that
\* qualified name, that simple name, or a qualified name ending in
\* "." + symbol; as positions in `functions`.
ResolveCandidates(functions, symbol) ==
    LET IsSuffix(q) == Len(q) > Len(symbol)
                       /\ SubSeq(q, Len(q) - Len(symbol) + 1, Len(q)) = symbol
    IN  {k \in 1..Len(functions) :
            \/ functions[k].qualified_name = symbol
            \/ <<functions[k].name>> = symbol
            \/ IsSuffix(functions[k].qualified_name)}

\* The resolution that takes the first of several candidates.
ResolveFirstCandidate(functions, symbol) ==
    IF symbol = <<>> \/ ResolveCandidates(functions, symbol) = {} THEN NoneId
    ELSE functions[SetMin(ResolveCandidates(functions, symbol))].id

\* query.run_query._resolve_function: the function a symbol names, by
\* qualified name, simple name or dotted suffix; NoneId (QueryError) when no
\* symbol is given, and when none or several match and no single one has the
\* qualified name.
_resolve_function(functions, symbol) ==
    LET candidates == ResolveCandidates(functions, symbol)
        exact == {k \in candidates : functions[k].qualified_name = symbol}
    IN  IF symbol = <<>> THEN NoneId
        ELSE IF candidates = {} THEN NoneId
        ELSE IF Cardinality(candidates) = 1 THEN functions[SetMin(candidates)].id
        ELSE IF Cardinality(exact) = 1 THEN functions[SetMin(exact)].id
        ELSE NoneId

\* The message of the QueryError _resolve_function raises.
ResolveError(functions, symbol) ==
    IF symbol = <<>> THEN "Symbol is required for this query kind"
    ELSE IF ResolveCandidates(functions, symbol) = {} THEN "Function not found for symbol"
    ELSE "Symbol is ambiguous; provide fully qualified name"

\* run_query(kind="callers"): QueryError, or the qualified names of the
\* callers in the order of their ids.
RECURSIVE SortedIds(_)
SortedIds(S) == IF S = {} THEN <<>> ELSE <<SetMin(S)>> \o SortedIds(S \ {SetMin(S)})

run_query_callers(built, symbol) ==
    LET functions == ModulesFunctions(built.modules)
        target_fn == _resolve_function(functions, symbol)
        callers == {built.call_edges[k].caller_function_id : k \in
                       {k \in 1..Len(built.call_edges) :
                           built.call_edges[k].callee_function_id = target_fn}}
        ids == SortedIds(callers)
    IN  IF target_fn = NoneId THEN [raised |-> TRUE, callers |-> <<>>]
        ELSE [raised |-> FALSE,
              callers |-> [k \in 1..Len(ids) |-> functions[ids[k] + 1].qualified_name]]

\* run_query(kind="callees"): QueryError, or the qualified names of the
\* resolved callees in the order of their ids.
run_query_callees(built, symbol) ==
    LET functions == ModulesFunctions(built.modules)
        target_fn == _resolve_function(functions, symbol)
        callees == {built.call_edges[k].callee_function_id : k \in
                       {k \in 1..Len(built.call_edges) :
                           /\ built.call_edges[k].caller_function_id = target_fn
                           /\ built.call_edges[k].callee_function_id # NoneId}}
        ids == SortedIds(callees)
    IN  IF target_fn = NoneId THEN [raised |-> TRUE, callees |-> <<>>]
        ELSE [raised |-> FALSE,
              callees |-> [k \in 1..Len(ids) |-> functions[ids[k] + 1].qualified_name]]

\* The source trees.  The caller module a.py: the classes Base, Mid(Base) and
\* Derived, a method Derived.caller and a function f that make the same call,
\* a function nested in f, and optionally a method Derived.m and a function
\* helper.
ImportChoices ==
    { <<>>,
      <<SourceImport("from", <<"b">>, <<"helper">>, "")>>,
      <<SourceImport("from", <<"b">>, <<"helper">>, "h")>>,
      <<SourceImport("import", <<>>, <<"b">>, "")>>,
      <<SourceImport("import", <<>>, <<"c">>, "b")>>,
      <<SourceImport("from", <<"b">>, <<"helper">>, ""),
        SourceImport("from", <<"c">>, <<"helper">>, "")>>,
      <<SourceImport("import", <<>>, <<"b">>, "Base")>>,
      <<SourceImport("from", <<>>, <<"helper">>, "")>> }

\* The call targets that name a function, a module attribute or a class
\* attribute.
NameTargets ==
    { <<"helper">>, <<"h">>, <<"b", "helper">>, <<"Base", "m">>, <<"a", "f">>,
      <<"m">>, <<"print">> }

\* The call targets that go through the receiver of a method.
ReceiverTargets ==
    { <<"self", "m">>, <<"cls", "only_base">>, <<"super()", "m">>,
      <<"super(Derived, self)", "m">>, <<"self", "nothing">>, <<"Derived", "m">>,
      <<"Base", "m">> }

PlainHierarchy == [derived |-> << <<"Mid">> >>, base |-> <<>>]

\* The declared bases of Derived and of Base.
HierarchyChoices ==
    { PlainHierarchy,
      [derived |-> << <<"Base">>, <<"Mid">> >>, base |-> <<>>],
      [derived |-> << <<"b", "Processor">> >>, base |-> <<>>],
      [derived |-> << <<"Unknown">> >>, base |-> <<>>],
      [derived |-> << <<"Mid">> >>, base |-> << <<"Derived">> >>] }

CallerModule(imports, hierarchy, derived_has_m, local_helper, target) ==
    LET methods == <<SourceDef("m", 1, 0, <<>>), SourceDef("only_base", 1, 0, <<>>),
                     SourceDef("mid_only", 2, 0, <<>>)>>
                   \o (IF derived_has_m THEN <<SourceDef("m", 3, 0, <<>>)>> ELSE <<>>)
                   \o <<SourceDef("caller", 3, 0, <<target>>)>>
    IN  SourceModule(<<"a">>, imports,
                     <<SourceClass("Base", hierarchy.base),
                       SourceClass("Mid", << <<"Base">> >>),
                       SourceClass("Derived", hierarchy.derived)>>,
                     methods
                     \o <<SourceDef("f", 0, 0, <<target, <<"print">>, target>>),
                          SourceDef("inner", 0, Len(methods) + 1, <<target>>)>>
                     \o (IF local_helper THEN <<SourceDef("helper", 0, 0, <<>>)>> ELSE <<>>),
                     <<target>>)

PlainLibrary ==
    SourceModule(<<"b">>, <<>>, <<SourceClass("Processor", <<>>)>>,
                 <<SourceDef("helper", 0, 0, <<>>), SourceDef("m", 0, 0, <<>>),
                   SourceDef("m", 1, 0, <<>>)>>, <<>>)

\* The library module b.py: helper, m and the class Processor; with helper
\* defined twice; with helper also nested in a function run.
LibraryChoices ==
    { PlainLibrary,
      SourceModule(<<"b">>, <<>>, <<SourceClass("Processor", <<>>)>>,
                   <<SourceDef("helper", 0, 0, <<>>), SourceDef("m", 0, 0, <<>>),
                     SourceDef("m", 1, 0, <<>>), SourceDef("helper", 0, 0, <<>>)>>, <<>>),
      SourceModule(<<"b">>, <<>>, <<SourceClass("Processor", <<>>)>>,
                   <<SourceDef("run", 0, 0, << <<"helper">> >>),
                     SourceDef("helper", 0, 1, <<>>), SourceDef("m", 1, 0, <<>>),
                     SourceDef("helper", 0, 0, <<>>)>>, <<>>) }

OtherModule ==
    SourceModule(<<"c">>, <<>>, <<>>,
                 <<SourceDef("m", 0, 0, <<>>), SourceDef("helper", 0, 0, <<>>)>>, <<>>)

\* The trees a.py, b.py, c.py in discovery order: every import form with every
\* name target and library, and every hierarchy with every receiver target.
TreeChoices ==
    { <<CallerModule(i, PlainHierarchy, FALSE, lh, t), lib, OtherModule>> :
        i \in ImportChoices, lh \in BOOLEAN, t \in NameTargets, lib \in LibraryChoices }
    \cup
    { <<CallerModule(i, h, dm, FALSE, t), PlainLibrary, OtherModule>> :
        i \in {<<>>, <<SourceImport("import", <<>>, <<"b">>, "Base")>>},
        h \in HierarchyChoices, dm \in BOOLEAN, t \in ReceiverTargets }

QuerySymbols == { <<"b", "helper">>, <<"c", "helper">>, <<"helper">>, <<"a", "Base", "m">> }

NoBuild == [done |-> FALSE, modules |-> <<>>, call_edges |-> <<>>]
NoQuery ==
    [done |-> FALSE, kind |-> "", symbol |-> <<>>, raised |-> FALSE, error |-> "",
     target |-> NoneId, callers |-> <<>>, callees |-> <<>>]

\* `neurocode ir`: build the IR of the (unchanged) tree; the previous build is
\* kept for comparison.  The tree is built at most twice.
BuildIr ==
    /\ previousIr = NoBuild
    /\ previousIr' = builtIr
    /\ LET ir_ == BuildTree(srcTree)
       IN  builtIr' = [done |-> TRUE, modules |-> ir_.modules,
                       call_edges |-> ir_.call_edges]
    /\ queryOut' = NoQuery
    /\ UNCHANGED srcTree

\* `neurocode query callers <symbol>` on the built IR.
QueryCallers ==
    /\ builtIr.done
    /\ \E symbol \in QuerySymbols :
          LET out == run_query_callers(builtIr, symbol)
          IN  queryOut' = [done |-> TRUE, kind |-> "callers", symbol |-> symbol,
                           raised |-> out.raised,
                           error |-> IF out.raised
                                     THEN ResolveError(ModulesFunctions(builtIr.modules),
                                                       symbol)
                                     ELSE "",
                           target |-> _resolve_function(ModulesFunctions(builtIr.modules),
                                                        symbol),
                           callers |-> out.callers, callees |-> <<>>]
    /\ UNCHANGED <<srcTree, builtIr, previousIr>>

\* The trees of the queries: a.py with f calling helper twice and g, g calling
\* f, itself and an unknown name, and h; b.py with helper, once, twice or not
\* at all; pkg/b.py with a helper of its own.
QueryCaller(imports) ==
    SourceModule(<<"a">>, imports, <<SourceClass("Base", <<>>)>>,
                 <<SourceDef("f", 0, 0, << <<"helper">>, <<"g">>, <<"helper">> >>),
                   SourceDef("g", 0, 0, << <<"f">>, <<"g">>, <<"print">> >>),
                   SourceDef("h", 0, 0, <<>>),
                   SourceDef("m", 1, 0, << <<"h">> >>)>>, <<>>)

QueryLibrary(defs) == SourceModule(<<"b">>, <<>>, <<>>, defs, <<>>)

QueryTrees ==
    { <<QueryCaller(i), QueryLibrary(defs)>> \o rest :
        i \in {<<>>, <<SourceImport("from", <<"b">>, <<"helper">>, "")>>,
               <<SourceImport("from", <<"pkg", "b">>, <<"helper">>, "")>>},
        defs \in {<<SourceDef("helper", 0, 0, <<>>)>>,
                  <<SourceDef("helper", 0, 0, <<>>), SourceDef("helper", 0, 0, <<>>)>>,
                  <<SourceDef("m", 0, 0, << <<"helper">> >>)>>},
        rest \in {<<>>, <<SourceModule(<<"pkg", "b">>, <<>>, <<>>,
                                       <<SourceDef("helper", 0, 0, <<>>)>>, <<>>)>>} }

\* The symbols asked for: none, qualified names, simple names, suffixes and
\* names of nothing.
QueryAllSymbols ==
    { <<>>, <<"a", "f">>, <<"b", "helper">>, <<"pkg", "b", "helper">>, <<"helper">>,
      <<"f">>, <<"g">>, <<"m">>, <<"Base", "m">>, <<"nothing">>, <<"a", "nothing">> }

\* `neurocode query callers|callees [<symbol>]` on the built IR.
RunQuery ==
    /\ builtIr.done
    /\ \E kind \in {"callers", "callees"}, symbol \in QueryAllSymbols :
          LET functions == ModulesFunctions(builtIr.modules)
              callers == run_query_callers(builtIr, symbol)
              callees == run_query_callees(builtIr, symbol)
              raised == IF kind = "callers" THEN callers.raised ELSE callees.raised
          IN  queryOut' = [done |-> TRUE, kind |-> kind, symbol |-> symbol,
                           raised |-> raised,
                           error |-> IF raised THEN ResolveError(functions, symbol) ELSE "",
                           target |-> _resolve_function(functions, symbol),
                           callers |-> IF kind = "callers" THEN callers.callers ELSE <<>>,
                           callees |-> IF kind = "callees" THEN callees.callees ELSE <<>>]
    /\ UNCHANGED <<srcTree, builtIr, previousIr>>

\* --- Structural checks (check.check_file_from_disk) ------------------------

\* The checks the configurations of the model enable: the two that read the
\* call edges.
ModelledChecks == {"UNUSED_FUNCTION", "CALL_CYCLE"}

SeverityNames == {"INFO", "WARNING", "ERROR"}

\* str.upper on the severities a configuration file spells.
upper(s) ==
    CASE s = "info" -> "INFO"
      [] s = "warning" -> "WARNING"
      [] s = "error" -> "ERROR"
      [] OTHER -> s

\* What a configuration file gives for one code under severity_overrides:
\* nothing, or a severity in either case.
WrittenSeverities == {"", "info", "warning", "ERROR"}

\* config._apply_config_data: the overrides are kept in upper case.
_apply_config_data(enabled, written) ==
    [enabled_checks |-> enabled,
     severity_overrides |-> [c \in DOMAIN written |-> upper(written[c])]]

\* Config.severity_for
severity_for(config, code, default) ==
    IF config.severity_overrides[code] # "" THEN config.severity_overrides[code]
    ELSE default

CheckResult(code, severity, fn, cycle) ==
    [code |-> code, severity |-> severity, function |-> fn.name, lineno |-> fn.lineno,
     cycle |-> cycle]

\* should_ignore of _check_functions_without_callers: dunder, private and
\* test_ names.
should_ignore(name) == name \in {"__init__", "_private", "test_f"}

\* check._check_functions_without_callers
_check_functions_without_callers(built, module, config) ==
    LET called == {built.call_edges[k].callee_function_id :
                      k \in 1..Len(built.call_edges)} \ {NoneId}
        Finding(fn) ==
            IF ~should_ignore(fn.name) /\ fn.id \notin called
            THEN <<CheckResult("UNUSED_FUNCTION",
                               severity_for(config, "UNUSED_FUNCTION", "INFO"), fn, <<>>)>>
            ELSE <<>>
    IN  Flatten([k \in 1..Len(module.functions) |-> Finding(module.functions[k])])

\* adj of _check_call_cycles: the resolved callees of the edges whose caller
\* is a function of the module.
Adjacency(built, local, node) ==
    IF node \notin local THEN {}
    ELSE {built.call_edges[k].callee_function_id :
             k \in {j \in 1..Len(built.call_edges) :
                       /\ built.call_edges[j].caller_function_id = node
                       /\ built.call_edges[j].callee_function_id # NoneId}}

\* list.index: the first position of the item.
IndexOf(path, node) == SetMin({k \in 1..Len(path) : path[k] = node})

\* dfs of _check_call_cycles, with its closure variables visited, stack and
\* cycles threaded through `st`; `calls` counts the invocations.  A set of
\* small ints is iterated in ascending order.
RECURSIVE dfs(_, _, _, _, _), DfsEach(_, _, _, _, _)
\* dfs without the `if node in visited: return`.
DfsRevisiting(built, local, node, path, st) ==
    LET entered == [st EXCEPT !.calls = @ + 1]
    IN  IF node \in st.stack
        THEN [entered EXCEPT !.cycles =
                 Append(@, SubSeq(path, IndexOf(path, node), Len(path)) \o <<node>>)]
        ELSE LET inside == [entered EXCEPT !.visited = @ \cup {node},
                                           !.stack = @ \cup {node}]
                 after == DfsEach(built, local,
                                  SortedIds(Adjacency(built, local, node)), path, inside)
             IN  [after EXCEPT !.stack = @ \ {node}]

dfs(built, local, node, path, st) ==
    LET entered == [st EXCEPT !.calls = @ + 1]
    IN  IF node \in st.stack
        THEN [entered EXCEPT !.cycles =
                 Append(@, SubSeq(path, IndexOf(path, node), Len(path)) \o <<node>>)]
        ELSE IF node \in st.visited THEN entered
        ELSE LET inside == [entered EXCEPT !.visited = @ \cup {node},
                                           !.stack = @ \cup {node}]
                 after == DfsEach(built, local,
                                  SortedIds(Adjacency(built, local, node)), path, inside)
             IN  [after EXCEPT !.stack = @ \ {node}]

\* `for nxt in adj.get(node, set()): dfs(nxt, path + [nxt])`
DfsEach(built, local, todo, path, st) ==
    IF todo = <<>> THEN st
    ELSE DfsEach(built, local, Tail(todo), path,
                 dfs(built, local, Head(todo), Append(path, Head(todo)), st))

\* `for fn_id in local_fn_ids: if fn_id not in visited: dfs(fn_id, [fn_id])`
RECURSIVE DfsRoots(_, _, _, _)
DfsRoots(built, local, todo, st) ==
    IF todo = <<>> THEN st
    ELSE DfsRoots(built, local, Tail(todo),
                  IF Head(todo) \in st.visited THEN st
                  ELSE dfs(built, local, Head(todo), <<Head(todo)>>, st))

FindCycles(built, module) ==
    LET local == {module.functions[k].id : k \in 1..Len(module.functions)}
    IN  DfsRoots(built, local, SortedIds(local),
                 [visited |-> {}, stack |-> {}, cycles |-> <<>>, calls |-> 0])

\* check._check_call_cycles: one CALL_CYCLE finding per recorded cycle, at
\* the function the cycle starts from.
_check_call_cycles(built, module, config) ==
    LET cycles == FindCycles(built, module).cycles
        FnOf(id) == CHOOSE fn \in {module.functions[k] : k \in 1..Len(module.functions)} :
                        fn.id = id
    IN  [k \in 1..Len(cycles) |->
            CheckResult("CALL_CYCLE", severity_for(config, "CALL_CYCLE", "WARNING"),
                        FnOf(cycles[k][1]), cycles[k])]

\* check.check_file, for the checks the configuration enables.
check_file(built, module, config) ==
    (IF "UNUSED_FUNCTION" \in config.enabled_checks
     THEN _check_functions_without_callers(built, module, config) ELSE <<>>)
    \o (IF "CALL_CYCLE" \in config.enabled_checks
        THEN _check_call_cycles(built, module, config) ELSE <<>>)

\* check._staleness_warning: the hash the IR recorded against the file now.
_staleness_warning(file_hash, state) ==
    IF file_hash = NoHash THEN <<>>
    ELSE IF state \notin Versions THEN <<"module file missing on disk">>
    ELSE IF compute_file_hash(state) # file_hash THEN <<"IR hash is stale; file changed on disk">>
    ELSE <<>>

\* The exit code of check._render_results: both formats set 1 at a finding
\* whose upper-cased severity is WARNING or ERROR.
ExitCodeCountingWarnings(results, output_format, warnings) ==
    IF \/ \E k \in 1..Len(results) : upper(results[k].severity) \in {"WARNING", "ERROR"}
       \/ warnings # <<>>
    THEN 1 ELSE 0

RenderExitCode(results, output_format, warnings) ==
    IF output_format = "json"
    THEN IF \E k \in 1..Len(results) : upper(results[k].severity) \in {"WARNING", "ERROR"}
         THEN 1 ELSE 0
    ELSE IF results = <<>> THEN 0
    ELSE IF \E k \in 1..Len(results) : upper(results[k].severity) \in {"WARNING", "ERROR"}
         THEN 1 ELSE 0

\* The lines _render_results prints before and for the findings (text), or
\* the two lists of the payload (json).
_render_results(results, output_format, warnings) ==
    [warnings |-> warnings,
     diagnostics |-> [k \in 1..Len(results) |->
                         [severity |-> IF output_format = "json" THEN results[k].severity
                                       ELSE upper(results[k].severity),
                          code |-> results[k].code]],
     no_issues |-> output_format = "text" /\ results = <<>>,
     exit_code |-> RenderExitCode(results, output_format, warnings)]

NoCheck ==
    [done |-> FALSE, format |-> "", module |-> 0, results |-> <<>>, warnings |-> <<>>,
     diagnostics |-> <<>>, no_issues |-> FALSE, exit_code |-> 0,
     cycle_check |-> FALSE, calls |-> 0]

\* The call graphs checked: module a with the functions f, g, h, k and
\* module b with helper.
CycleCalls ==
    { <<>>, << <<"f">> >>, << <<"g">> >>, << <<"h">> >>, << <<"g">>, <<"h">> >>,
      << <<"f">>, <<"g">> >>, << <<"b", "helper">> >>, << <<"g">>, <<"g">>, <<"print">> >> }

CheckTrees ==
    { << SourceModule(<<"a">>, <<SourceImport("import", <<>>, <<"b">>, "")>>, <<>>,
                      <<SourceDef("f", 0, 0, cf), SourceDef("g", 0, 0, cg),
                        SourceDef("h", 0, 0, ch)>>, <<>>),
         SourceModule(<<"b">>, <<SourceImport("import", <<>>, <<"a">>, "")>>, <<>>,
                      <<SourceDef("helper", 0, 0, cb)>>, <<>>) >> :
        cf \in CycleCalls, cg \in CycleCalls,
        ch \in {<<>>, << <<"f">> >>, << <<"f">>, <<"g">> >>},
        cb \in {<<>>, << <<"a", "f">> >>} }

\* `neurocode check <file> --format <format>` on the built IR: the module
\* that owns the file, the configuration of the repository and the state of
\* the file on disk are the inputs.  One check is followed per build.
CliCheck ==
    /\ builtIr.done
    /\ ~checkOut.done
    /\ \E m \in 1..Len(builtIr.modules), output_format \in {"text", "json"},
          enabled \in SUBSET ModelledChecks, state \in {"v1", "v2", "absent"},
          cycle_severity \in WrittenSeverities, unused_severity \in {"", "warning"} :
          LET config == _apply_config_data(enabled,
                            [c \in ModelledChecks |->
                                IF c = "CALL_CYCLE" THEN cycle_severity
                                ELSE unused_severity])
              module == builtIr.modules[m]
              results == check_file(builtIr, module, config)
              warnings == _staleness_warning(compute_file_hash("v1"), state)
              rendered == _render_results(results, output_format, warnings)
          IN  checkOut' = [done |-> TRUE, format |-> output_format, module |-> m,
                           results |-> results, warnings |-> warnings,
                           diagnostics |-> rendered.diagnostics,
                           no_issues |-> rendered.no_issues,
                           exit_code |-> rendered.exit_code,
                           cycle_check |-> "CALL_CYCLE" \in enabled,
                           calls |-> FindCycles(builtIr, module).calls]

\* --- Embedding provider (embedding_provider.OpenAIEmbeddingProvider) -------

\* `while attempts < 3`
MaxAttempts == 3

\* The exceptions embed_batch catches and retries after.
RetriedErrors == {"HTTPError", "URLError", "TimeoutError"}

\* A delay that grows by one tenth of a second per attempt.
LinearDelay(attempts) == attempts

\* `time.sleep(2**attempts * 0.1)`, in tenths of a second.
BackoffDelay(attempts) == 2 ^ attempts

\* `embeddings = [vec[: self.dim] for vec in embeddings]` when dim is set;
\* a vector is modelled by its length.
Truncated(lengths, dim) ==
    IF dim = 0 THEN lengths
    ELSE [k \in 1..Len(lengths) |-> IF lengths[k] < dim THEN lengths[k] ELSE dim]

NoEmbed ==
    [pc |-> "idle", texts |-> 0, dim |-> 0, attempts |-> 0, outcomes |-> <<>>,
     slept |-> <<>>, error |-> "", result |-> <<>>]

\* An attempt gets a response that parses: embed_batch returns the vectors of
\* its "data" (none when the key is missing).
EmbedReturns ==
    /\ embedOut.pc = "calling"
    /\ embedOut.attempts < MaxAttempts
    /\ \E has_data \in BOOLEAN :
          embedOut' = [embedOut EXCEPT
                          !.pc = "returned",
                          !.attempts = @ + 1,
                          !.outcomes = Append(@, "ok"),
                          !.result = IF has_data
                                     THEN Truncated([k \in 1..embedOut.texts |-> 3],
                                                    embedOut.dim)
                                     ELSE <<>>]

\* An attempt ends in one of the caught exceptions: embed_batch sleeps, and
\* leaves the loop with RuntimeError when that was the last attempt.
EmbedRetries ==
    /\ embedOut.pc = "calling"
    /\ embedOut.attempts < MaxAttempts
    /\ \E exc \in RetriedErrors :
          LET attempts == embedOut.attempts + 1
          IN  embedOut' = [embedOut EXCEPT
                              !.pc = IF attempts < MaxAttempts THEN "calling" ELSE "raised",
                              !.attempts = attempts,
                              !.outcomes = Append(@, exc),
                              !.slept = Append(@, BackoffDelay(attempts)),
                              !.error = IF attempts < MaxAttempts THEN "" ELSE "RuntimeError"]

\* An attempt ends in an exception embed_batch does not catch (a response that
\* is no JSON, an item without "embedding"): it leaves embed_batch at once.
EmbedBreaks ==
    /\ embedOut.pc = "calling"
    /\ embedOut.attempts < MaxAttempts
    /\ \E exc \in {"JSONDecodeError", "KeyError"} :
          embedOut' = [embedOut EXCEPT
                          !.pc = "raised",
                          !.attempts = @ + 1,
                          !.outcomes = Append(@, exc),
                          !.error = exc]

\* --- Patch history (history_model) ----------------------------------------

PIPE == "|"

\* str.split(sep) for a one-character sep.
RECURSIVE SplitFrom(_, _, _, _)
SplitFrom(s, sep, acc, current) ==
    IF s = <<>> THEN Append(acc, current)
    ELSE IF Head(s) = sep THEN SplitFrom(Tail(s), sep, Append(acc, current), <<>>)
    ELSE SplitFrom(Tail(s), sep, acc, Append(current, Head(s)))

Split(s, sep) == SplitFrom(s, sep, <<>>, <<>>)

\* `[f for f in value.split("|") if f]`
NonEmptyParts(value) == SelectSeq(Split(value, PIPE), LAMBDA part : part # <<>>)

\* history_model._now_iso: the clock formatted to the whole second.
_now_iso(clock) == IntToStr(clock)

\* `value.replace(",", "\\,").replace("\n", "\\n")` of history_to_toon.
HistoryEscape(value) ==
    ReplaceChar(ReplaceChar(value, COMMA, <<BS, COMMA>>), NL, <<BS, "n">>)

PatchHistoryEntry(id, timestamp, fix, files_changed, is_noop, summary, warnings, plan_id) ==
    [id |-> id, timestamp |-> timestamp, fix |-> fix, files_changed |-> files_changed,
     is_noop |-> is_noop, summary |-> summary, warnings |-> warnings, plan_id |-> plan_id]

\* The row history_to_toon writes for an entry, behind its two spaces.
HistoryRow(entry) ==
    <<" ", " ">>
    \o Join(<<entry.id, entry.timestamp, HistoryEscape(entry.fix),
              HistoryEscape(Join(entry.files_changed, <<PIPE>>)),
              IF entry.is_noop THEN <<"1">> ELSE <<"0">>,
              HistoryEscape(entry.summary),
              HistoryEscape(Join(entry.warnings, <<PIPE>>)),
              entry.plan_id>>, <<COMMA>>)

\* history_model.history_to_toon: the count of the header and one line per
\* entry.
history_to_toon(entries) ==
    [exists |-> TRUE, count |-> Len(entries), rows |-> MapSeq(HistoryRow, entries)]

\* The entry history_from_toon builds from a line of the entries table.
EntryOfRow(raw) ==
    LET values == _parse_row(strip(raw))
        Value(i) == IF i <= Len(values) THEN values[i] ELSE <<>>
    IN  PatchHistoryEntry(Value(1), Value(2), _unescape_value(Value(3)),
                          NonEmptyParts(Value(4)), Value(5) = <<"1">>,
                          _unescape_value(Value(6)),
                          MapSeq(_unescape_value, NonEmptyParts(Value(7))), Value(8))

\* history_model.history_from_toon: blank lines are skipped, every other line
\* of the table becomes an entry.
history_from_toon(file) ==
    MapSeq(EntryOfRow, SelectSeq(file.rows, LAMBDA raw : strip(raw) # <<>>))

NoHistoryFile == [exists |-> FALSE, count |-> 0, rows |-> <<>>]
NoHistoryLoad == [done |-> FALSE, entries |-> <<>>]

\* history_model.load_patch_history
load_patch_history(file) == IF ~file.exists THEN <<>> ELSE history_from_toon(file)

\* The texts handed to append_patch_history: plain ones, and ones with a
\* comma, a newline, a backslash or a bar.
FixTexts == {<<"a">>, <<"a", COMMA, "b">>, <<"a", NL, "b">>, <<"a", BS, "n">>}
FileLists == {<<>>, << <<"x">>, <<"y">> >>}
SummaryTexts == {<<"s">>, <<"s", COMMA>>}
WarningLists == {<<>>, << <<"w">> >>, << <<"w", PIPE, "v">> >>}

\* A second passes.
Tick ==
    /\ histClock < MaxHistory
    /\ histClock' = histClock + 1
    /\ UNCHANGED <<histFile, histAppended, histLoaded>>

\* history_model.append_patch_history: load, append the new entry, save.
AppendPatchHistory ==
    /\ Len(histAppended) < MaxHistory
    /\ \E fix \in FixTexts, files_changed \in FileLists, summary \in SummaryTexts,
          warnings \in WarningLists :
          LET entry == PatchHistoryEntry(_now_iso(histClock),
                                         _now_iso(histClock), fix, files_changed,
                                         FALSE, summary, warnings, <<>>)
          IN  /\ histFile' = history_to_toon(Append(load_patch_history(histFile), entry))
              /\ histAppended' = Append(histAppended, entry)
    /\ histLoaded' = NoHistoryLoad
    /\ UNCHANGED histClock

\* history_model.load_patch_history, as `neurocode patch-history` calls it.
LoadPatchHistory ==
    /\ histLoaded' = [done |-> TRUE, entries |-> load_patch_history(histFile)]
    /\ UNCHANGED <<histFile, histAppended, histClock>>

vars == <<toonVars, statusVars, planVars, patchVars, resolveVars, serviceVars>>

RowNext ==
    \/ WriteRow /\ UNCHANGED <<irpc, ir, toon, parsedIr>> /\ UNCHANGED statusVars
          /\ UNCHANGED planVars /\ UNCHANGED <<patchVars, resolveVars, serviceVars>>
    \/ ReadRow /\ UNCHANGED <<irpc, ir, toon, parsedIr>> /\ UNCHANGED statusVars
          /\ UNCHANGED planVars /\ UNCHANGED <<patchVars, resolveVars, serviceVars>>

InitRow ==
    /\ rowpc = "init"
    /\ fields \in UNION {[1..k -> RowValues] : k \in 1..MaxFields}
    /\ row = <<>>
    /\ readFields = <<>>
    /\ irpc = "idle"
    /\ ir = <<>>
    /\ toon = <<>>
    /\ parsedIr = <<>>
    /\ disk = [f \in Files |-> "absent"]
    /\ irFile = [exists |-> FALSE, modules |-> <<>>]
    /\ statusOut = NoOutput
    /\ builtFrom = [f \in Files |-> "absent"]
    /\ irBuilt = FALSE
    /\ planDoc = JNull
    /\ planLog = NoPlanLog
    /\ loadOut = NoLoad
    /\ source = <<>>
    /\ irTarget = NoFunction
    /\ patchPlan = <<>>
    /\ history = <<>>
    /\ patchOut = NoPatchOut
    /\ srcTree = <<>>
    /\ builtIr = NoBuild
    /\ previousIr = NoBuild
    /\ queryOut = NoQuery
    /\ checkOut = NoCheck
    /\ embedOut = NoEmbed
    /\ histFile = NoHistoryFile
    /\ histAppended = <<>>
    /\ histClock = 0
    /\ histLoaded = NoHistoryLoad

SpecRow == InitRow /\ [][RowNext]_vars

IrNext ==
    \/ SerializeIr /\ UNCHANGED <<rowpc, fields, row, readFields>> /\ UNCHANGED statusVars
          /\ UNCHANGED planVars /\ UNCHANGED <<patchVars, resolveVars, serviceVars>>
    \/ ParseIr /\ UNCHANGED <<rowpc, fields, row, readFields>> /\ UNCHANGED statusVars
          /\ UNCHANGED planVars /\ UNCHANGED <<patchVars, resolveVars, serviceVars>>

InitToon ==
    /\ rowpc = "idle"
    /\ fields = <<>>
    /\ row = <<>>
    /\ readFields = <<>>
    /\ irpc = "built"
    /\ ir \in {build_repository_ir(src) : src \in RepoSources}
    /\ toon = <<>>
    /\ parsedIr = <<>>
    /\ disk = [f \in Files |-> "absent"]
    /\ irFile = [exists |-> FALSE, modules |-> <<>>]
    /\ statusOut = NoOutput
    /\ builtFrom = [f \in Files |-> "absent"]
    /\ irBuilt = FALSE
    /\ planDoc = JNull
    /\ planLog = NoPlanLog
    /\ loadOut = NoLoad
    /\ source = <<>>
    /\ irTarget = NoFunction
    /\ patchPlan = <<>>
    /\ history = <<>>
    /\ patchOut = NoPatchOut
    /\ srcTree = <<>>
    /\ builtIr = NoBuild
    /\ previousIr = NoBuild
    /\ queryOut = NoQuery
    /\ checkOut = NoCheck
    /\ embedOut = NoEmbed
    /\ histFile = NoHistoryFile
    /\ histAppended = <<>>
    /\ histClock = 0
    /\ histLoaded = NoHistoryLoad

SpecToon == InitToon /\ [][IrNext]_vars

StatusNext ==
    \/ CliIr /\ UNCHANGED <<toonVars, planVars, patchVars, resolveVars, serviceVars>>
    \/ CliStatus /\ UNCHANGED <<toonVars, planVars, patchVars, resolveVars, serviceVars>>
    \/ CliIrCheck /\ UNCHANGED <<toonVars, planVars, patchVars, resolveVars, serviceVars>>
    \/ ApiStatus /\ UNCHANGED <<toonVars, planVars, patchVars, resolveVars, serviceVars>>
    \/ ApiBuildIr /\ UNCHANGED <<toonVars, planVars, patchVars, resolveVars, serviceVars>>
    \/ WriteFile /\ UNCHANGED <<toonVars, planVars, patchVars, resolveVars, serviceVars>>

InitStatus ==
    /\ rowpc = "idle"
    /\ fields = <<>>
    /\ row = <<>>
    /\ readFields = <<>>
    /\ irpc = "idle"
    /\ ir = <<>>
    /\ toon = <<>>
    /\ parsedIr = <<>>
    /\ disk \in [Files -> DiskStates]
    /\ irFile \in {[exists |-> FALSE, modules |-> <<>>]}
                  \cup {[exists |-> TRUE, modules |-> m] : m \in LoadableModules(1)}
    /\ statusOut = NoOutput
    /\ builtFrom = disk
    /\ irBuilt = FALSE
    /\ planDoc = JNull
    /\ planLog = NoPlanLog
    /\ loadOut = NoLoad
    /\ source = <<>>
    /\ irTarget = NoFunction
    /\ patchPlan = <<>>
    /\ history = <<>>
    /\ patchOut = NoPatchOut
    /\ srcTree = <<>>
    /\ builtIr = NoBuild
    /\ previousIr = NoBuild
    /\ queryOut = NoQuery
    /\ checkOut = NoCheck
    /\ embedOut = NoEmbed
    /\ histFile = NoHistoryFile
    /\ histAppended = <<>>
    /\ histClock = 0
    /\ histLoaded = NoHistoryLoad

SpecStatus == InitStatus /\ [][StatusNext]_vars

PlanNext ==
    \/ PlanPatchLlm /\ UNCHANGED <<toonVars, statusVars, patchVars, resolveVars, serviceVars>>
    \/ FillPlan /\ UNCHANGED <<toonVars, statusVars, patchVars, resolveVars, serviceVars>>
    \/ RemoveField /\ UNCHANGED <<toonVars, statusVars, patchVars, resolveVars, serviceVars>>
    \/ AddField /\ UNCHANGED <<toonVars, statusVars, patchVars, resolveVars, serviceVars>>
    \/ RetypeField /\ UNCHANGED <<toonVars, statusVars, patchVars, resolveVars, serviceVars>>
    \/ SetUnsupportedOp /\ UNCHANGED <<toonVars, statusVars, patchVars, resolveVars, serviceVars>>
    \/ SetLinenoBelowOne /\ UNCHANGED <<toonVars, statusVars, patchVars, resolveVars, serviceVars>>
    \/ SetEndLinenoBelowLineno /\ UNCHANGED <<toonVars, statusVars, patchVars, resolveVars, serviceVars>>
    \/ SetReplaceRange /\ UNCHANGED <<toonVars, statusVars, patchVars, resolveVars, serviceVars>>
    \/ SetCode /\ UNCHANGED <<toonVars, statusVars, patchVars, resolveVars, serviceVars>>
    \/ DisableOperation /\ UNCHANGED <<toonVars, statusVars, patchVars, resolveVars, serviceVars>>
    \/ LoadPatchPlan /\ UNCHANGED <<toonVars, statusVars, patchVars, resolveVars, serviceVars>>

InitPlan ==
    /\ rowpc = "idle"
    /\ fields = <<>>
    /\ row = <<>>
    /\ readFields = <<>>
    /\ irpc = "idle"
    /\ ir = <<>>
    /\ toon = <<>>
    /\ parsedIr = <<>>
    /\ disk = [f \in Files |-> "absent"]
    /\ irFile = [exists |-> FALSE, modules |-> <<>>]
    /\ statusOut = NoOutput
    /\ builtFrom = [f \in Files |-> "absent"]
    /\ irBuilt = FALSE
    /\ planDoc = JNull
    /\ planLog = NoPlanLog
    /\ loadOut = NoLoad
    /\ source = <<>>
    /\ irTarget = NoFunction
    /\ patchPlan = <<>>
    /\ history = <<>>
    /\ patchOut = NoPatchOut
    /\ srcTree = <<>>
    /\ builtIr = NoBuild
    /\ previousIr = NoBuild
    /\ queryOut = NoQuery
    /\ checkOut = NoCheck
    /\ embedOut = NoEmbed
    /\ histFile = NoHistoryFile
    /\ histAppended = <<>>
    /\ histClock = 0
    /\ histLoaded = NoHistoryLoad

SpecPlan == InitPlan /\ [][PlanNext]_vars

PatchNext ==
    \/ ApiApplyPatchPlan /\ UNCHANGED <<toonVars, statusVars, planVars, resolveVars, serviceVars>>
    \/ PatchFile /\ UNCHANGED <<toonVars, statusVars, planVars, resolveVars, serviceVars>>

InitPatch ==
    /\ rowpc = "idle"
    /\ fields = <<>>
    /\ row = <<>>
    /\ readFields = <<>>
    /\ irpc = "idle"
    /\ ir = <<>>
    /\ toon = <<>>
    /\ parsedIr = <<>>
    /\ disk = [f \in Files |-> "absent"]
    /\ irFile = [exists |-> FALSE, modules |-> <<>>]
    /\ statusOut = NoOutput
    /\ builtFrom = [f \in Files |-> "absent"]
    /\ irBuilt = FALSE
    /\ planDoc = JNull
    /\ planLog = NoPlanLog
    /\ loadOut = NoLoad
    /\ source \in SourceChoices
    /\ irTarget = IrTargetOf(source)
    /\ patchPlan \in PlanChoices
    /\ history = <<>>
    /\ patchOut = NoPatchOut
    /\ srcTree = <<>>
    /\ builtIr = NoBuild
    /\ previousIr = NoBuild
    /\ queryOut = NoQuery
    /\ checkOut = NoCheck
    /\ embedOut = NoEmbed
    /\ histFile = NoHistoryFile
    /\ histAppended = <<>>
    /\ histClock = 0
    /\ histLoaded = NoHistoryLoad

SpecPatch == InitPatch /\ [][PatchNext]_vars

PlanOrderNext == ApiApplyPatchPlan /\ UNCHANGED <<toonVars, statusVars, planVars, resolveVars, serviceVars>>

InitPlanOrder ==
    /\ rowpc = "idle"
    /\ fields = <<>>
    /\ row = <<>>
    /\ readFields = <<>>
    /\ irpc = "idle"
    /\ ir = <<>>
    /\ toon = <<>>
    /\ parsedIr = <<>>
    /\ disk = [f \in Files |-> "absent"]
    /\ irFile = [exists |-> FALSE, modules |-> <<>>]
    /\ statusOut = NoOutput
    /\ builtFrom = [f \in Files |-> "absent"]
    /\ irBuilt = FALSE
    /\ planDoc = JNull
    /\ planLog = NoPlanLog
    /\ loadOut = NoLoad
    /\ source \in SourceChoices
    /\ irTarget = IrTargetOf(source)
    /\ patchPlan \in OrderPlans
    /\ history = <<>>
    /\ patchOut = NoPatchOut
    /\ srcTree = <<>>
    /\ builtIr = NoBuild
    /\ previousIr = NoBuild
    /\ queryOut = NoQuery
    /\ checkOut = NoCheck
    /\ embedOut = NoEmbed
    /\ histFile = NoHistoryFile
    /\ histAppended = <<>>
    /\ histClock = 0
    /\ histLoaded = NoHistoryLoad

SpecPlanOrder == InitPlanOrder /\ [][PlanOrderNext]_vars

InitCliPatch ==
    /\ rowpc = "idle"
    /\ fields = <<>>
    /\ row = <<>>
    /\ readFields = <<>>
    /\ irpc = "idle"
    /\ ir = <<>>
    /\ toon = <<>>
    /\ parsedIr = <<>>
    /\ disk = [f \in Files |-> "absent"]
    /\ irFile = [exists |-> FALSE, modules |-> <<>>]
    /\ statusOut = NoOutput
    /\ builtFrom = [f \in Files |-> "absent"]
    /\ irBuilt = FALSE
    /\ planDoc = JNull
    /\ planLog = NoPlanLog
    /\ loadOut = NoLoad
    /\ source \in SourceChoices
    /\ irTarget = IrTargetOf(source)
    /\ patchPlan = <<>>
    /\ history = <<>>
    /\ patchOut = NoPatchOut
    /\ srcTree = <<>>
    /\ builtIr = NoBuild
    /\ previousIr = NoBuild
    /\ queryOut = NoQuery
    /\ checkOut = NoCheck
    /\ embedOut = NoEmbed
    /\ histFile = NoHistoryFile
    /\ histAppended = <<>>
    /\ histClock = 0
    /\ histLoaded = NoHistoryLoad

CliPatchNext == CliPatch /\ UNCHANGED <<toonVars, statusVars, planVars, resolveVars, serviceVars>>

SpecCliPatch == InitCliPatch /\ [][CliPatchNext]_vars

ResolveNext ==
    \/ BuildIr /\ UNCHANGED <<toonVars, statusVars, planVars, patchVars, serviceVars>>
    \/ QueryCallers /\ UNCHANGED <<toonVars, statusVars, planVars, patchVars, serviceVars>>

InitResolve ==
    /\ rowpc = "idle"
    /\ fields = <<>>
    /\ row = <<>>
    /\ readFields = <<>>
    /\ irpc = "idle"
    /\ ir = <<>>
    /\ toon = <<>>
    /\ parsedIr = <<>>
    /\ disk = [f \in Files |-> "absent"]
    /\ irFile = [exists |-> FALSE, modules |-> <<>>]
    /\ statusOut = NoOutput
    /\ builtFrom = [f \in Files |-> "absent"]
    /\ irBuilt = FALSE
    /\ planDoc = JNull
    /\ planLog = NoPlanLog
    /\ loadOut = NoLoad
    /\ source = <<>>
    /\ irTarget = NoFunction
    /\ patchPlan = <<>>
    /\ history = <<>>
    /\ patchOut = NoPatchOut
    /\ srcTree \in TreeChoices
    /\ builtIr = NoBuild
    /\ previousIr = NoBuild
    /\ queryOut = NoQuery
    /\ checkOut = NoCheck
    /\ embedOut = NoEmbed
    /\ histFile = NoHistoryFile
    /\ histAppended = <<>>
    /\ histClock = 0
    /\ histLoaded = NoHistoryLoad

SpecResolve == InitResolve /\ [][ResolveNext]_vars

QueryNext ==
    \/ BuildIr /\ UNCHANGED <<toonVars, statusVars, planVars, patchVars, serviceVars>>
    \/ RunQuery /\ UNCHANGED <<toonVars, statusVars, planVars, patchVars, serviceVars>>

InitQuery ==
    /\ rowpc = "idle"
    /\ fields = <<>>
    /\ row = <<>>
    /\ readFields = <<>>
    /\ irpc = "idle"
    /\ ir = <<>>
    /\ toon = <<>>
    /\ parsedIr = <<>>
    /\ disk = [f \in Files |-> "absent"]
    /\ irFile = [exists |-> FALSE, modules |-> <<>>]
    /\ statusOut = NoOutput
    /\ builtFrom = [f \in Files |-> "absent"]
    /\ irBuilt = FALSE
    /\ planDoc = JNull
    /\ planLog = NoPlanLog
    /\ loadOut = NoLoad
    /\ source = <<>>
    /\ irTarget = NoFunction
    /\ patchPlan = <<>>
    /\ history = <<>>
    /\ patchOut = NoPatchOut
    /\ srcTree \in QueryTrees
    /\ builtIr = NoBuild
    /\ previousIr = NoBuild
    /\ queryOut = NoQuery
    /\ checkOut = NoCheck
    /\ embedOut = NoEmbed
    /\ histFile = NoHistoryFile
    /\ histAppended = <<>>
    /\ histClock = 0
    /\ histLoaded = NoHistoryLoad

SpecQuery == InitQuery /\ [][QueryNext]_vars

CheckNext ==
    \/ BuildIr /\ UNCHANGED <<toonVars, statusVars, planVars, patchVars, serviceVars>>
    \/ CliCheck /\ UNCHANGED <<toonVars, statusVars, planVars, patchVars, resolveVars>>
           /\ UNCHANGED <<embedOut, historyVars>>

InitCheck ==
    /\ rowpc = "idle"
    /\ fields = <<>>
    /\ row = <<>>
    /\ readFields = <<>>
    /\ irpc = "idle"
    /\ ir = <<>>
    /\ toon = <<>>
    /\ parsedIr = <<>>
    /\ disk = [f \in Files |-> "absent"]
    /\ irFile = [exists |-> FALSE, modules |-> <<>>]
    /\ statusOut = NoOutput
    /\ builtFrom = [f \in Files |-> "absent"]
    /\ irBuilt = FALSE
    /\ planDoc = JNull
    /\ planLog = NoPlanLog
    /\ loadOut = NoLoad
    /\ source = <<>>
    /\ irTarget = NoFunction
    /\ patchPlan = <<>>
    /\ history = <<>>
    /\ patchOut = NoPatchOut
    /\ srcTree \in CheckTrees
    /\ builtIr = NoBuild
    /\ previousIr = NoBuild
    /\ queryOut = NoQuery
    /\ checkOut = NoCheck
    /\ embedOut = NoEmbed
    /\ histFile = NoHistoryFile
    /\ histAppended = <<>>
    /\ histClock = 0
    /\ histLoaded = NoHistoryLoad

SpecCheck == InitCheck /\ [][CheckNext]_vars

EmbedNext ==
    \/ EmbedReturns /\ UNCHANGED <<toonVars, statusVars, planVars, patchVars, resolveVars>>
           /\ UNCHANGED <<checkOut, historyVars>>
    \/ EmbedRetries /\ UNCHANGED <<toonVars, statusVars, planVars, patchVars, resolveVars>>
           /\ UNCHANGED <<checkOut, historyVars>>
    \/ EmbedBreaks /\ UNCHANGED <<toonVars, statusVars, planVars, patchVars, resolveVars>>
           /\ UNCHANGED <<checkOut, historyVars>>

InitEmbed ==
    /\ rowpc = "idle"
    /\ fields = <<>>
    /\ row = <<>>
    /\ readFields = <<>>
    /\ irpc = "idle"
    /\ ir = <<>>
    /\ toon = <<>>
    /\ parsedIr = <<>>
    /\ disk = [f \in Files |-> "absent"]
    /\ irFile = [exists |-> FALSE, modules |-> <<>>]
    /\ statusOut = NoOutput
    /\ builtFrom = [f \in Files |-> "absent"]
    /\ irBuilt = FALSE
    /\ planDoc = JNull
    /\ planLog = NoPlanLog
    /\ loadOut = NoLoad
    /\ source = <<>>
    /\ irTarget = NoFunction
    /\ patchPlan = <<>>
    /\ history = <<>>
    /\ patchOut = NoPatchOut
    /\ srcTree = <<>>
    /\ builtIr = NoBuild
    /\ previousIr = NoBuild
    /\ queryOut = NoQuery
    /\ checkOut = NoCheck
    /\ embedOut \in {[NoEmbed EXCEPT !.pc = "calling", !.texts = n, !.dim = d] :
                       n \in 1..2, d \in 0..4}
    /\ histFile = NoHistoryFile
    /\ histAppended = <<>>
    /\ histClock = 0
    /\ histLoaded = NoHistoryLoad

SpecEmbed == InitEmbed /\ [][EmbedNext]_vars

HistoryNext ==
    \/ Tick /\ UNCHANGED <<toonVars, statusVars, planVars, patchVars, resolveVars>>
           /\ UNCHANGED <<checkOut, embedOut>>
    \/ AppendPatchHistory /\ UNCHANGED <<toonVars, statusVars, planVars, patchVars, resolveVars>>
           /\ UNCHANGED <<checkOut, embedOut>>
    \/ LoadPatchHistory /\ UNCHANGED <<toonVars, statusVars, planVars, patchVars, resolveVars>>
           /\ UNCHANGED <<checkOut, embedOut>>

InitHistory ==
    /\ rowpc = "idle"
    /\ fields = <<>>
    /\ row = <<>>
    /\ readFields = <<>>
    /\ irpc = "idle"
    /\ ir = <<>>
    /\ toon = <<>>
    /\ parsedIr = <<>>
    /\ disk = [f \in Files |-> "absent"]
    /\ irFile = [exists |-> FALSE, modules |-> <<>>]
    /\ statusOut = NoOutput
    /\ builtFrom = [f \in Files |-> "absent"]
    /\ irBuilt = FALSE
    /\ planDoc = JNull
    /\ planLog = NoPlanLog
    /\ loadOut = NoLoad
    /\ source = <<>>
    /\ irTarget = NoFunction
    /\ patchPlan = <<>>
    /\ history = <<>>
    /\ patchOut = NoPatchOut
    /\ srcTree = <<>>
    /\ builtIr = NoBuild
    /\ previousIr = NoBuild
    /\ queryOut = NoQuery
    /\ checkOut = NoCheck
    /\ embedOut = NoEmbed
    /\ histFile = NoHistoryFile
    /\ histAppended = <<>>
    /\ histClock = 0
    /\ histLoaded = NoHistoryLoad

SpecHistory == InitHistory /\ [][HistoryNext]_vars

\* C2: every written row reads back as exactly the fields that were written.
RowRoundTrip == rowpc = "read" => readFields = fields

\* C1: parsing the serialized IR gives back the IR: the same modules,
\* functions, call sites and call edges in the same order, and the same imports.
IrRoundTrip == irpc = "parsed" => parsedIr = ir

\* C3: a `status` run on an IR written by `ir` reports a module fresh when its
\* file still has the bytes the build read, and stale (with exit code 1) when
\* the bytes were changed since; with no file changed the exit code is 0.
StatusFollowsEdits ==
    (statusOut.cmd = "status" /\ irBuilt /\ irFile.exists) =>
        /\ \A i \in 1..Len(irFile.modules) :
              LET f == irFile.modules[i].path
              IN  /\ statusOut.tree[f] = builtFrom[f]
                        => statusOut.statuses[i] = "fresh"
                  /\ (Readable(statusOut.tree[f]) /\ statusOut.tree[f] # builtFrom[f])
                        => (statusOut.statuses[i] = "stale" /\ statusOut.exit_code = 1)
        /\ statusOut.tree = builtFrom => statusOut.exit_code = 0

\* C4: each module has one of the four statuses, for the stated reason, and
\* `status`, `ir --check` and StatusResult.ir_fresh report the repository
\* fresh exactly when every module is fresh.
FreshIffAllModulesFresh ==
    (statusOut.cmd \in {"status", "ir --check", "api.status"} /\ irFile.exists) =>
        /\ \A i \in 1..Len(irFile.modules) :
              LET m == irFile.modules[i]
                  state == statusOut.tree[m.path]
                  st == statusOut.statuses[i]
              IN  /\ st \in {"fresh", "stale", "missing", "unknown"}
                  /\ st = "missing" => ~Readable(state)
                  /\ st = "unknown" => m.file_hash = NoHash
                  /\ st = "fresh" => (Readable(state) /\ m.file_hash = compute_file_hash(state))
                  /\ st = "stale" => (Readable(state) /\ m.file_hash # NoHash
                                      /\ m.file_hash # compute_file_hash(state))
        /\ statusOut.fresh <=> AllFresh(statusOut.statuses)

\* The operations of a document that are enabled and have empty or
\* whitespace-only code.
BlankEnabledOps(doc) ==
    {s \in OperationSites(doc) :
        LET o == GetSite(doc, s)
        IN  /\ HasType(o, "enabled", "boolean") /\ o.enabled.v
            /\ HasType(o, "code", "string") /\ strip(o.code.v) = <<>>}

BlankDisabledOps(doc) ==
    {s \in OperationSites(doc) :
        LET o == GetSite(doc, s)
        IN  /\ HasType(o, "enabled", "boolean") /\ ~o.enabled.v
            /\ HasType(o, "code", "string") /\ strip(o.code.v) = <<>>}

\* C30: a build_ir step without force, taken when ir.toon exists and the tree
\* is as the build that wrote ir.toon read it, writes nothing, leaves ir.toon
\* as it is and returns fresh = true; and a build_ir step that rewrites an
\* existing ir.toon has force set or finds a module of it that is not fresh.
BuildIrKeepsFreshSnapshot ==
    [][(statusOut'.cmd = "api.build_ir" /\ disk' = disk) =>
          /\ (irBuilt /\ irFile.exists /\ builtFrom = disk /\ ~statusOut'.force)
                => (~statusOut'.wrote /\ irFile' = irFile /\ statusOut'.fresh)
          /\ (irFile.exists /\ statusOut'.wrote)
                => \/ statusOut'.force
                   \/ ~AllFresh(_compute_module_status(irFile.modules, disk))]_vars

\* C8: load_patch_plan raises, and returns no plan, for every document with a
\* missing required field, a field the schema does not name, a field of the
\* wrong type, an unsupported op, a lineno below 1 or an end_lineno below its
\* lineno.
DefectivePlanRejected ==
    (loadOut.done /\ planLog.defects # {}) => (loadOut.raised /\ loadOut.plan = NoPlan)

\* C8 witness: a document whose only defect is an end_lineno of 1 under a
\* lineno of 2 was loaded and rejected for it.
DefectivePlanRejectedWitness ==
    /\ loadOut.done /\ loadOut.raised /\ loadOut.error = "end_lineno"
    /\ \E d \in planLog.defects : d.kind = "end_lineno"

\* The range replacements of a plan document that name no end line, or one
\* below their lineno.
OpenRangeOps(doc) ==
    {s \in OperationSites(doc) :
        LET o == GetSite(doc, s)
        IN  /\ HasType(o, "op", "string") /\ o.op.v = <<"replace_range">>
            /\ \/ "end_lineno" \notin DOMAIN o
               \/ o.end_lineno.t = "null"
               \/ /\ o.end_lineno.t = "integer" /\ HasType(o, "lineno", "integer")
                  /\ o.end_lineno.v < o.lineno.v}

\* C25: a plan with a replace_range operation whose end_lineno is null or
\* absent, or lower than its lineno, is rejected by load_patch_plan, which
\* returns no plan, so that the operation is never applied.
OpenRangeRejected ==
    (loadOut.done /\ OpenRangeOps(planDoc) # {}) => (loadOut.raised /\ loadOut.plan = NoPlan)

\* C9: loaded for application, a plan with an enabled operation whose code is
\* empty or whitespace is rejected, and the empty-code rejection happens only
\* when such an enabled operation exists: a disabled operation never causes it.
EmptyCodeRejected ==
    loadOut.done =>
        /\ (loadOut.require_filled /\ BlankEnabledOps(planDoc) # {}) => loadOut.raised
        /\ loadOut.error = "empty code" =>
              (loadOut.require_filled /\ BlankEnabledOps(planDoc) # {})

\* C9 witness: a plan with a disabled operation of blank code and every
\* enabled operation filled was loaded for application and accepted.
EmptyCodeRejectedWitness ==
    /\ loadOut.done /\ loadOut.require_filled /\ ~loadOut.raised
    /\ BlankDisabledOps(planDoc) # {}

\* C10: a bundle as build_patch_plan_bundle wrote it, with every operation's
\* code filled with text and nothing else changed, is accepted by
\* load_patch_plan, as a draft and for application.
FilledBundleAccepted ==
    (loadOut.done /\ planLog.filled /\ strip(planLog.fill) # <<>> /\ planLog.edits = 0)
        => ~loadOut.raised

\* A plan operation that cannot be placed on the given lines: it fails the
\* validation of the plan, or its anchor is not in the file.
Unplaceable(op, lines) ==
    \/ op.file # TargetFile
    \/ op.end_lineno # NoneId /\ op.end_lineno < op.lineno
    \/ op.enabled /\ strip(op.code) = <<>>
    \/ op.enabled /\ op.op \in {"insert_before", "insert_after"} /\ op.lineno > Len(lines)
    \/ op.enabled /\ op.op = "replace_range"
          /\ (op.end_lineno = NoneId \/ op.end_lineno > Len(lines))
    \/ op.enabled /\ op.op = "append_to_function"
          /\ ~\E i \in 1..Len(lines) :
                 IsDef(lines[i]) /\ op.symbol = "pkg.mod." \o DefName(lines[i][1])

\* C5: when the same filled plan is applied a second time without dry-run,
\* right after an application that changed the file, the second application
\* reports is_noop = true, an empty files_changed list and an empty diff, and
\* leaves the file as the first application left it.
SecondApplicationIsNoop ==
    (patchOut.cmd = "plan" /\ patchOut.repeat /\ ~patchOut.dry_run) =>
        /\ ~patchOut.raised
        /\ patchOut.is_noop
        /\ patchOut.files_changed = <<>>
        /\ patchOut.diff = <<>>
        /\ source = patchOut.before

DryRunChangesNothing ==
    (patchOut.cmd # "none" /\ patchOut.dry_run) =>
        /\ source = patchOut.before
        /\ history = patchOut.history_before
        /\ ~patchOut.raised => patchOut.diff = _render_diff(patchOut.before, patchOut.planned)

\* C7 witness: a dry run of a strategy patch that would change the file
\* returned a non-empty diff.
DryRunChangesNothingWitness ==
    /\ patchOut.cmd = "patch" /\ patchOut.dry_run /\ ~patchOut.raised
    /\ patchOut.planned # patchOut.before
    /\ patchOut.diff # <<>>
    /\ source = patchOut.before

\* C11: a record is appended to the patch history exactly when the last
\* application (a strategy patch or a plan) succeeded, was not a no-op and was
\* not a dry run, and the record carries its fix text and changed files; any
\* other application leaves the history as it was.
HistoryAppendedOnRealApply ==
    patchOut.cmd # "none" =>
        IF ~patchOut.raised /\ ~patchOut.is_noop /\ ~patchOut.dry_run
        THEN /\ Len(history) = Len(patchOut.history_before) + 1
             /\ SubSeq(history, 1, Len(history) - 1) = patchOut.history_before
             /\ history[Len(history)].fix = patchOut.fix
             /\ history[Len(history)].files_changed = <<TargetFile>>
        ELSE history = patchOut.history_before

\* The functions and classes of the built IR, and the caller of an edge with
\* its module.
BuiltFunctions == ModulesFunctions(builtIr.modules)
BuiltClasses == ModulesClasses(builtIr.modules)
BuiltEdgeSet == {builtIr.call_edges[k] : k \in 1..Len(builtIr.call_edges)}
FunctionWithId(id) == CHOOSE f \in {BuiltFunctions[k] : k \in 1..Len(BuiltFunctions)} : f.id = id
ModuleOfFunction(f) == builtIr.modules[f.module_id + 1]

\* What each of the six resolution steps gives for the call of an edge, taken
\* alone, in the order of the steps.
StepResults(e) ==
    LET fn == FunctionWithId(e.caller_function_id)
        module == ModuleOfFunction(fn)
    IN  <<StepQualified(BuiltFunctions, e.target),
          StepLocal(BuiltFunctions, module, e.target),
          StepHierarchy(BuiltFunctions, BuiltClasses, module, fn, e.target),
          StepFromImport(BuiltFunctions, module, e.target),
          StepModuleAlias(BuiltFunctions, module, e.target),
          StepClassMethod(BuiltFunctions, BuiltClasses, module, e.target)>>

Succeeded(results) == {k \in 1..Len(results) : results[k] # NoneId}

\* C12: the callee stored on the edge of every call site is the result of the
\* first resolution step that succeeds, in the order exact qualified name,
\* same-module simple name, self/cls/super hierarchy walk, from-import
\* binding, import-alias attribute, ClassName.method; no callee when none
\* succeeds.
FirstSucceedingStepWins ==
    builtIr.done =>
        \A e \in BuiltEdgeSet :
            LET results == StepResults(e)
            IN  e.callee_function_id =
                    IF Succeeded(results) = {} THEN NoneId
                    ELSE results[SetMin(Succeeded(results))]

\* C12 witness: a built call site that two steps resolve to different
\* functions, whose edge holds the result of the earlier one.
FirstSucceedingStepWinsWitness ==
    /\ builtIr.done
    /\ \E e \in BuiltEdgeSet :
          LET results == StepResults(e)
          IN  /\ \E j, k \in Succeeded(results) : j < k /\ results[j] # results[k]
              /\ e.callee_function_id = results[SetMin(Succeeded(results))]

\* The qualified name M.N a from-import binds the target of an edge to, <<>>
\* when the caller's module has no `from M import N` for it.
ImportedName(e) ==
    LET module == ModuleOfFunction(FunctionWithId(e.caller_function_id))
        k == func_imports(module, e.target)
    IN  IF k = 0 \/ module.imports[k].module = <<>> THEN <<>>
        ELSE module.imports[k].module \o module.imports[k].name

\* The call of an edge goes through a from-import of a function of the
\* repository and no earlier step resolves it.
IsFromImportCall(e) ==
    /\ ImportedName(e) # <<>>
    /\ \E k \in 1..Len(BuiltFunctions) : BuiltFunctions[k].qualified_name = ImportedName(e)
    /\ \A j \in 1..3 : StepResults(e)[j] = NoneId

\* C13: a call through `from M import N` (under an alias or not) that no
\* earlier step resolves has an edge whose callee is a function M.N, and a
\* callers query for M.N answers with the caller among the callers.
FromImportCallResolves ==
    builtIr.done =>
        \A e \in BuiltEdgeSet :
            IsFromImportCall(e) =>
                /\ e.callee_function_id # NoneId
                /\ FunctionWithId(e.callee_function_id).qualified_name = ImportedName(e)
                /\ (queryOut.done /\ queryOut.symbol = ImportedName(e)) =>
                       /\ ~queryOut.raised
                       /\ \E k \in 1..Len(queryOut.callers) :
                              queryOut.callers[k] =
                                  FunctionWithId(e.caller_function_id).qualified_name

\* The call of an edge is made inside a method and goes through self, cls or
\* super.
IsReceiverCall(e) ==
    /\ FunctionWithId(e.caller_function_id).parent_class_id # NoneId
    /\ Len(e.target) = 2
    /\ e.target[1] \in {"self", "cls"} \cup SuperPrefixes

\* The classes a receiver call looks in, in order: the linearized hierarchy
\* of the caller's class, without the class itself for super.
ClassesLookedIn(e) ==
    LET fn == FunctionWithId(e.caller_function_id)
        hierarchy == _iter_class_hierarchy(BuiltClasses, ModuleOfFunction(fn),
                                           fn.parent_class_id + 1)
    IN  IF e.target[1] \in SuperPrefixes THEN Tail(hierarchy) ELSE hierarchy

\* The positions in ClassesLookedIn of the classes that define the method.
Definers(e) ==
    {k \in 1..Len(ClassesLookedIn(e)) :
        \E j \in 1..Len(BuiltFunctions) :
            BuiltFunctions[j].qualified_name =
                BuiltClasses[ClassesLookedIn(e)[k]].qualified_name \o <<e.target[2]>>}

\* C14: inside a method of class C, self.m and cls.m resolve to the method m
\* of the first class of C's linearized hierarchy, C first, that defines m,
\* and super().m to that of the first such class other than C; when no class
\* looked in defines m the hierarchy step resolves nothing.
ReceiverCallResolvesInHierarchy ==
    builtIr.done =>
        \A e \in BuiltEdgeSet :
            IsReceiverCall(e) =>
                IF Definers(e) = {}
                THEN StepResults(e)[3] = NoneId /\ e.callee_function_id = NoneId
                ELSE /\ e.callee_function_id # NoneId
                     /\ FunctionWithId(e.callee_function_id).qualified_name =
                            BuiltClasses[ClassesLookedIn(e)[SetMin(Definers(e))]].qualified_name
                            \o <<e.target[2]>>
                     /\ e.target[1] \in SuperPrefixes =>
                            FunctionWithId(e.callee_function_id).parent_class_id #
                                FunctionWithId(e.caller_function_id).parent_class_id

\* C14 witness: a super() call from a class that defines the method itself,
\* resolved to the method of an ancestor.
ReceiverCallResolvesInHierarchyWitness ==
    /\ builtIr.done
    /\ \E e \in BuiltEdgeSet :
          /\ IsReceiverCall(e) /\ e.target[1] \in SuperPrefixes
          /\ e.callee_function_id # NoneId
          /\ \E j \in 1..Len(BuiltFunctions) :
                /\ BuiltFunctions[j].parent_class_id =
                       FunctionWithId(e.caller_function_id).parent_class_id
                /\ BuiltFunctions[j].name = e.target[2]

\* C15: in a built IR the caller id of every call edge is the id of a
\* function of the IR, and so is every callee id that is not null.
EdgeEndsExist ==
    builtIr.done =>
        \A e \in BuiltEdgeSet :
            /\ \E k \in 1..Len(BuiltFunctions) : BuiltFunctions[k].id = e.caller_function_id
            /\ e.callee_function_id # NoneId =>
                   \E k \in 1..Len(BuiltFunctions) :
                       BuiltFunctions[k].id = e.callee_function_id

\* C15 witness: a built IR with a resolved edge into another module and an
\* unresolved edge.
EdgeEndsExistWitness ==
    /\ builtIr.done
    /\ \E e \in BuiltEdgeSet :
          /\ e.callee_function_id # NoneId
          /\ \E j, k \in 1..Len(BuiltFunctions) :
                /\ BuiltFunctions[j].id = e.caller_function_id
                /\ BuiltFunctions[k].id = e.callee_function_id
                /\ BuiltFunctions[j].module_id # BuiltFunctions[k].module_id
    /\ \E e \in BuiltEdgeSet : e.callee_function_id = NoneId

\* The call sites of the built IR, module by module, function by function,
\* in the order of the calls of each function; and the same three fields of
\* the call edges, in the order of the edges.
BuiltCallSites ==
    Flatten([k \in 1..Len(BuiltFunctions) |->
                [c \in 1..Len(BuiltFunctions[k].calls) |->
                    <<BuiltFunctions[k].id, BuiltFunctions[k].calls[c].lineno,
                      BuiltFunctions[k].calls[c].target>>]])

BuiltEdgeSites ==
    [k \in 1..Len(builtIr.call_edges) |->
        <<builtIr.call_edges[k].caller_function_id, builtIr.call_edges[k].lineno,
          builtIr.call_edges[k].target>>]

SymbolIdsUnique ==
    builtIr.done =>
        \A j, k \in 1..Len(BuiltFunctions) :
            j # k => SymbolId(builtIr.modules, BuiltFunctions[j])
                     # SymbolId(builtIr.modules, BuiltFunctions[k])

NoopPatchExitsThree ==
    (patchOut.cmd = "cli_patch" /\ ~patchOut.raised) =>
        /\ (patchOut.is_noop /\ ~patchOut.dry_run) => patchOut.exit_code = 3
        /\ (~patchOut.is_noop /\ ~patchOut.dry_run) => patchOut.exit_code = 0

QueryMatches ==
    {f \in {BuiltFunctions[k] : k \in 1..Len(BuiltFunctions)} :
        \/ f.qualified_name = queryOut.symbol
        \/ <<f.name>> = queryOut.symbol
        \/ \E n \in 1..(Len(f.qualified_name) - 1) :
              SubSeq(f.qualified_name, n + 1, Len(f.qualified_name)) = queryOut.symbol}

QueryExactMatches == {f \in QueryMatches : f.qualified_name = queryOut.symbol}

\* C21: a callers or callees query resolves its symbol by qualified name,
\* simple name or qualified-name suffix; it fails with a QueryError when no
\* symbol is given, when no function matches, and when several match and no
\* single one has the symbol as its qualified name; it never picks one of
\* several candidates otherwise.
QueryResolvesOrFails ==
    queryOut.done =>
        IF \/ queryOut.symbol = <<>>
           \/ QueryMatches = {}
           \/ Cardinality(QueryMatches) > 1 /\ Cardinality(QueryExactMatches) # 1
        THEN /\ queryOut.raised /\ queryOut.error # ""
             /\ queryOut.callers = <<>> /\ queryOut.callees = <<>>
        ELSE /\ ~queryOut.raised
             /\ \E f \in QueryMatches :
                   /\ f.id = queryOut.target
                   /\ Cardinality(QueryMatches) > 1 => f \in QueryExactMatches

\* C21 witness: a failed query whose symbol several functions match, none of
\* them exactly, on a tree where the qualified name of one function is a
\* dotted suffix of that of another.
QueryResolvesOrFailsWitness ==
    /\ queryOut.done /\ queryOut.raised
    /\ Cardinality(QueryMatches) > 1
    /\ Cardinality(QueryExactMatches) # 1
    /\ \E f, g \in {BuiltFunctions[k] : k \in 1..Len(BuiltFunctions)} :
          /\ f # g
          /\ Len(g.qualified_name) > Len(f.qualified_name)
          /\ SubSeq(g.qualified_name, Len(g.qualified_name) - Len(f.qualified_name) + 1,
                    Len(g.qualified_name)) = f.qualified_name

\* The callers query for the function g lists the function f, and the callees
\* query for f lists g; the functions are named by their qualified names, as
\* on the command line and in the results.
CallersOfLists(g, f) ==
    LET out == run_query_callers(builtIr, g.qualified_name)
    IN  ~out.raised /\ \E k \in 1..Len(out.callers) : out.callers[k] = f.qualified_name

CalleesOfLists(f, g) ==
    LET out == run_query_callees(builtIr, f.qualified_name)
    IN  ~out.raised /\ \E k \in 1..Len(out.callees) : out.callees[k] = g.qualified_name

\* C29: for every pair of functions f and g of the IR, the callers query for
\* g lists f exactly when the callees query for f lists g, and a query
\* result lists a function at most once.
CallersMirrorCallees ==
    (queryOut.done /\ ~queryOut.raised) =>
        LET asked == FunctionWithId(queryOut.target)
            all == {BuiltFunctions[k] : k \in 1..Len(BuiltFunctions)}
            Listed(items, h) == \E k \in 1..Len(items) : items[k] = h.qualified_name
        IN  /\ queryOut.kind = "callers" =>
                   \A f \in all : Listed(queryOut.callers, f) <=> CalleesOfLists(f, asked)
            /\ queryOut.kind = "callees" =>
                   \A g \in all : Listed(queryOut.callees, g) <=> CallersOfLists(g, asked)
            /\ \A j, k \in 1..Len(queryOut.callers) :
                   j # k => queryOut.callers[j] # queryOut.callers[k]
            /\ \A j, k \in 1..Len(queryOut.callees) :
                   j # k => queryOut.callees[j] # queryOut.callees[k]

\* C22: the exit status of the check command is 0 exactly when every finding
\* has the severity INFO and 1 when some finding has WARNING or ERROR, in the
\* text and the json format alike; the staleness warning has no part in it.
CheckExitFollowsFindings ==
    checkOut.done =>
        LET failing == {k \in 1..Len(checkOut.results) :
                           checkOut.results[k].severity \in {"WARNING", "ERROR"}}
        IN  /\ checkOut.exit_code \in {0, 1}
            /\ checkOut.exit_code = 0 <=>
                   \A k \in 1..Len(checkOut.results) : checkOut.results[k].severity = "INFO"
            /\ failing # {} => checkOut.exit_code = 1

\* C22 witness: a json check of a stale file whose findings are all INFO ended
\* with status 0.
CheckExitFollowsFindingsWitness ==
    /\ checkOut.done
    /\ checkOut.format = "json"
    /\ checkOut.warnings # <<>>
    /\ checkOut.results # <<>>
    /\ \A k \in 1..Len(checkOut.results) : checkOut.results[k].severity = "INFO"
    /\ checkOut.exit_code = 0

\* The module checked, the ids of its functions and the edges the cycle check
\* follows.
CheckedModule == builtIr.modules[checkOut.module]

CheckedLocal == {CheckedModule.functions[k].id : k \in 1..Len(CheckedModule.functions)}

CheckedEdges ==
    {<<e.caller_function_id, e.callee_function_id>> :
        e \in {x \in BuiltEdgeSet : /\ x.caller_function_id \in CheckedLocal
                                    /\ x.callee_function_id # NoneId}}

\* b is reached from a along one or more of the edges, in at most n steps.
RECURSIVE ReachedWithin(_, _, _)
ReachedWithin(a, b, n) ==
    \/ <<a, b>> \in CheckedEdges
    \/ n > 1 /\ \E c \in CheckedLocal : <<a, c>> \in CheckedEdges /\ ReachedWithin(c, b, n - 1)

Reaches(a, b) == ReachedWithin(a, b, Cardinality(CheckedLocal))

CycleFindings ==
    {k \in 1..Len(checkOut.results) : checkOut.results[k].code = "CALL_CYCLE"}

\* The edge that closed the cycle of a finding.
ClosingEdge(k) ==
    LET c == checkOut.results[k].cycle IN <<c[Len(c) - 2], c[Len(c) - 1]>>

\* C26: the cycle check ends after at most one visit per function and per
\* edge, on graphs with cycles and self-calls too; it gives one CALL_CYCLE
\* finding per back-edge (an edge to a function that reaches its caller), no
\* two findings for the same edge, and none exactly when no function of the
\* module reaches itself.
OneFindingPerBackEdge ==
    checkOut.done =>
        /\ checkOut.calls <= Cardinality(CheckedLocal) + Cardinality(CheckedEdges)
        /\ \A k \in CycleFindings :
               LET c == checkOut.results[k].cycle
               IN  /\ Len(c) >= 3
                   /\ c[1] = c[Len(c) - 1]
                   /\ \A j \in 1..(Len(c) - 2) : <<c[j], c[j + 1]>> \in CheckedEdges
                   /\ Reaches(ClosingEdge(k)[2], ClosingEdge(k)[1])
                       \/ ClosingEdge(k)[1] = ClosingEdge(k)[2]
        /\ \A j, k \in CycleFindings : j # k => ClosingEdge(j) # ClosingEdge(k)
        /\ checkOut.cycle_check =>
               (CycleFindings = {} <=> ~\E a \in CheckedLocal : Reaches(a, a))

\* C26 witness: f calls g and g calls f, nothing else calls within the module,
\* and the check gave exactly one CALL_CYCLE finding.
OneFindingPerBackEdgeWitness ==
    /\ checkOut.done
    /\ checkOut.cycle_check
    /\ Cardinality(CheckedEdges) = 2
    /\ \E a, b \in CheckedLocal : a # b /\ CheckedEdges = {<<a, b>>, <<b, a>>}
    /\ Cardinality(CycleFindings) = 1

\* C23: an embedding call makes at most three attempts; a successful attempt
\* is the last one; every delay slept is at least 0.2 s and twice the one
\* before; after the third failed attempt the call has raised.
EmbedRetryBounded ==
    LET n == Len(embedOut.outcomes)
    IN  /\ embedOut.attempts = n
        /\ n <= 3
        /\ \A k \in 1..n : embedOut.outcomes[k] = "ok" =>
               k = n /\ embedOut.pc = "returned"
        /\ embedOut.pc = "returned" => embedOut.outcomes[n] = "ok"
        /\ Len(embedOut.slept) = Cardinality({k \in 1..n : embedOut.outcomes[k] \in RetriedErrors})
        /\ \A k \in 1..Len(embedOut.slept) : embedOut.slept[k] >= 2
        /\ \A k \in 1..(Len(embedOut.slept) - 1) :
               embedOut.slept[k + 1] = 2 * embedOut.slept[k]
        /\ (n = 3 /\ embedOut.outcomes[3] # "ok") =>
               embedOut.pc = "raised" /\ embedOut.error # ""
        /\ embedOut.pc = "calling" => n < 3

\* C23 witness: three attempts failed with caught errors, the call slept after
\* each and raised RuntimeError.
EmbedRetryBoundedWitness ==
    /\ embedOut.pc = "raised"
    /\ embedOut.attempts = 3
    /\ embedOut.error = "RuntimeError"
    /\ embedOut.slept = <<2, 4, 8>>

\* The parts of a history record the claims speak of.
RecordOf(entry) ==
    [id |-> entry.id, fix |-> entry.fix, files_changed |-> entry.files_changed,
     summary |-> entry.summary, warnings |-> entry.warnings]

\* C27: loading the history returns every record appended so far, unchanged
\* in id, fix, files_changed, summary and warnings, in the order of the
\* appends.
HistoryKeepsRecords ==
    histLoaded.done =>
        /\ Len(histLoaded.entries) = Len(histAppended)
        /\ \A k \in 1..Len(histAppended) :
               RecordOf(histLoaded.entries[k]) = RecordOf(histAppended[k])

\* C28: no two history records have the same id.
HistoryIdsDistinct ==
    \A j, k \in 1..Len(histAppended) :
        j # k => histAppended[j].id # histAppended[k].id

\* The operations of the applied plan in the order of application, and the
\* working lines after the first k of them.
AppliedOps == SortDescending(SelectSeq(patchPlan, LAMBDA op : op.enabled))

WorkingAfter(k) == PlaceAll(patchOut.before, SubSeq(AppliedOps, 1, k)).lines

\* The lines an operation covers in the numbering of the file.
CoveredBy(op) ==
    IF op.op = "replace_range" THEN op.lineno..op.end_lineno ELSE {op.lineno}

\* No two operations of the plan have the same anchor line, and none has its
\* anchor inside the range another replaces.
AnchorsApart ==
    \A j, k \in 1..Len(patchPlan) :
        j # k => /\ patchPlan[j].lineno # patchPlan[k].lineno
                 /\ patchPlan[j].lineno \notin CoveredBy(patchPlan[k])

\* No line of an operation's text is in the file yet (an operation whose text
\* is found at its place is skipped as already applied).
TextsAbsent ==
    \A k \in 1..Len(patchPlan) :
        \A t \in 1..Len(SplitLines(patchPlan[k].code)) :
            \A i \in 1..Len(patchOut.before) :
                patchOut.before[i] # SplitLines(patchPlan[k].code)[t]

\* Every operation placed at its anchor as the file numbers its lines before
\* any of them is applied: line by line, the insertions before the line,
\* the line or what replaces it, the insertions after it.
PlacedAtOriginalAnchors(lines, ops) ==
    LET TextsOf(kind, i) ==
            Flatten([k \in 1..Len(ops) |->
                        IF ops[k].op = kind /\ ops[k].lineno = i
                        THEN SplitLines(ops[k].code) ELSE <<>>])
        Replaced(i) == \E k \in 1..Len(ops) :
                          /\ ops[k].op = "replace_range"
                          /\ i \in ops[k].lineno..ops[k].end_lineno
        Body(i) == IF Replaced(i) THEN TextsOf("replace_range", i) ELSE <<lines[i]>>
    IN  Flatten([i \in 1..Len(lines) |->
                    TextsOf("insert_before", i) \o Body(i) \o TextsOf("insert_after", i)])

====
